---- MODULE Spec2Model ----
(***************************************************************************)
(* Freight dashboard (src/app.js): the field resolution, numeric coercion  *)
(* and aggregate functions, modelled as operators over JavaScript values,  *)
(* and the calls of those functions as actions.                            *)
(*                                                                         *)
(* JavaScript values are records tagged with their typeof.  A number is a  *)
(* fixed-point integer counted in units of 1/Scale (Scale = 10^FracDigits);*)
(* NaN is a number with the flag nan.  A string is a sequence of           *)
(* one-character strings, so that toLowerCase, includes and the parse of   *)
(* Number(...) and parseFloat(...) are computed character by character.    *)
(* A row is a function from the column names it carries to values; a       *)
(* column the row does not carry reads as undefined.                       *)
(***************************************************************************)
EXTENDS Integers, Sequences, FiniteSets, TLC

VARIABLES
    COST_PER_DELAY_DAY,     \* app.js:7   number, set once at startup
    rows,                   \* the row array handed to the aggregate functions
    kpi,                    \* the KPI elements written by updateKPIs
    delayByCarrierChart,    \* app.js:14  null or the live bar chart
    riskDistributionChart,  \* app.js:15  null or the live doughnut chart
    ret,                    \* the last value returned by a helper called on its own
    called,                 \* the functions that have run on rows
    urlCpd,                 \* app.js:9   urlParams.get('cpd'): null or a string
    costDistanceChart,      \* app.js:16  null or the live scatter chart
    modeEmissionsChart,     \* app.js:17  null or the live emissions bar chart
    insightsContainer,      \* the cards of the element '#insights .space-y-4'
    fileHint,               \* what the element 'fileHint' shows
    loadState,              \* where a call of loadExcel stands
    currentStep,            \* app.js:1344 walkthrough.currentStep
    isActive,               \* app.js:1430 walkthrough.isActive
    timers,                 \* the pending auto-advance timers, oldest first
    popups,                 \* the welcome and demo popups created so far
    run,                    \* how many times start() has run
    advances,               \* how many times next() has run since the last start()
    detour,                 \* whether previous() or stop() has run since the last start()
    event,                  \* the event handled last
    containers,             \* the chart containers that the document has
    liveCharts,             \* per container, the charts created and not destroyed
    chartCall               \* what the last call of a chart builder did

\* the walkthrough, its timers and the popups
tourVars == <<currentStep, isActive, timers, popups, run, advances, detour, event>>

\* the state of the page that the aggregate functions do not touch
\* the chart containers and the life of the charts drawn in them
chartVars == <<containers, liveCharts, chartCall>>

pageVars == <<fileHint, loadState, tourVars, chartVars>>

vars ==
    <<COST_PER_DELAY_DAY, rows, kpi, delayByCarrierChart, riskDistributionChart, ret,
      called, urlCpd, costDistanceChart, modeEmissionsChart, insightsContainer, pageVars>>

\* the page before loadExcel is called: the element shows the hint of the
\* page, no load is under way
\* app.js:1341-1432, 1708: the walkthrough as constructed, no timer pending
\* and no popup created
InitTour ==
    /\ currentStep = 0
    /\ isActive = FALSE
    /\ timers = <<>>
    /\ popups = <<>>
    /\ run = 0
    /\ advances = 0
    /\ detour = FALSE
    /\ event = "none"

\* app.js:139, 299, 381, 665: the ids of the chart containers
ChartContainers ==
    {"chart-delay-by-carrier", "chart-risk", "chart-cost-distance", "chart-mode-emissions"}

\* app.js:14-17: no chart has been created
NoCharts ==
    /\ liveCharts = [c \in ChartContainers |-> 0]
    /\ chartCall = [kind |-> "none", destroyed |-> FALSE, created |-> FALSE]

\* a document that has the four chart containers
InitCharts ==
    /\ containers = ChartContainers
    /\ NoCharts

InitPage ==
    /\ fileHint = "hint"
    /\ loadState = "idle"
    /\ InitTour
    /\ InitCharts

----------------------------------------------------------------------------
(* Bounds of the model *)

\* fraction digits a model number keeps
FracDigits == 2
\* longest string handed to num() on its own
MaxStrLen == 3
\* longest row array of the KPI and savings functions
MaxRows == 3
\* longest row array of the risk histogram
MaxRiskRows == 2
\* longest point array of the correlation
MaxPoints == 3
\* largest distance and cost of a correlation point
MaxCoord == 3
\* rows beyond the two full carrier groups in the carrier ranking
ExtraCarrierRows == 0

Scale == 10 ^ FracDigits

----------------------------------------------------------------------------
(* JavaScript values *)

Undefined == [t |-> "undefined"]
Null == [t |-> "null"]
Bool(b) == [t |-> "boolean", b |-> b]
\* the number v / Scale
Fix(v) == [t |-> "number", nan |-> FALSE, v |-> v]
\* the whole number i
Int_(i) == Fix(i * Scale)
\* the number i + h/100
Dec(i, h) == Fix(i * Scale + h * (Scale \div 100))
NaN == [t |-> "number", nan |-> TRUE, v |-> 0]
Str(s) == [t |-> "string", s |-> s]
\* a built-in function, known by its name
Function(name) == [t |-> "function", name |-> name]

typeof(v) == IF v.t = "null" THEN "object" ELSE v.t

\* ToBoolean: what `a || b` and `c ? x : y` test
Truthy(v) ==
    CASE v.t = "undefined" -> FALSE
      [] v.t = "null" -> FALSE
      [] v.t = "object" -> TRUE
      [] v.t = "function" -> TRUE
      [] v.t = "boolean" -> v.b
      [] v.t = "number" -> ~v.nan /\ v.v # 0
      [] v.t = "string" -> v.s # <<>>

\* a || b
Or(a, b) == IF Truthy(a) THEN a ELSE b

\* vs[1] || vs[2] || ... || vs[n]
RECURSIVE OrChain(_)
OrChain(vs) ==
    IF Len(vs) = 1 THEN vs[1] ELSE Or(vs[1], OrChain(Tail(vs)))

\* row.key
Get(row, key) == IF key \in DOMAIN row THEN row[key] ELSE Undefined

\* row.k1 || row.k2 || ... || dflt
Probe(row, keys, dflt) ==
    OrChain([i \in 1..(Len(keys) + 1) |->
                IF i <= Len(keys) THEN Get(row, keys[i]) ELSE dflt])

----------------------------------------------------------------------------
(* Strings *)

Digits == <<"0", "1", "2", "3", "4", "5", "6", "7", "8", "9">>
IsDigit(c) == \E i \in 1..10 : Digits[i] = c
DigitVal(c) == (CHOOSE i \in 1..10 : Digits[i] = c) - 1
IsSpace(c) == c = " "

UpperCase == <<"A", "B", "C", "D", "E", "F", "G", "H", "I", "J", "K", "L", "M",
               "N", "O", "P", "Q", "R", "S", "T", "U", "V", "W", "X", "Y", "Z">>
LowerCase == <<"a", "b", "c", "d", "e", "f", "g", "h", "i", "j", "k", "l", "m",
               "n", "o", "p", "q", "r", "s", "t", "u", "v", "w", "x", "y", "z">>

\* String.prototype.toLowerCase
toLowerCase(s) ==
    [i \in 1..Len(s) |->
        IF \E k \in 1..26 : UpperCase[k] = s[i]
        THEN LowerCase[CHOOSE k \in 1..26 : UpperCase[k] = s[i]]
        ELSE s[i]]

\* String.prototype.includes
includes(s, sub) ==
    \E i \in 1..(Len(s) - Len(sub) + 1) : SubSeq(s, i, i + Len(sub) - 1) = sub

RECURSIVE TrimLeft(_)
TrimLeft(s) ==
    IF s # <<>> /\ IsSpace(s[1]) THEN TrimLeft(Tail(s)) ELSE s

RECURSIVE TrimRight(_)
TrimRight(s) ==
    IF s # <<>> /\ IsSpace(s[Len(s)]) THEN TrimRight(SubSeq(s, 1, Len(s) - 1)) ELSE s

AllDigits(s) == \A i \in 1..Len(s) : IsDigit(s[i])

\* the value of a digit string as a whole number
RECURSIVE WholeVal(_)
WholeVal(s) ==
    IF s = <<>> THEN 0 ELSE 10 * WholeVal(SubSeq(s, 1, Len(s) - 1)) + DigitVal(s[Len(s)])

\* the value of the digits after the point, in units of 1/Scale
\* (digits beyond FracDigits are below the model's precision)
FracVal(s) ==
    LET kept == IF Len(s) > FracDigits THEN SubSeq(s, 1, FracDigits) ELSE s
    IN  WholeVal(kept) * (10 ^ (FracDigits - Len(kept)))

\* an unsigned decimal literal: digits, digits. , digits.digits or .digits
IsUnsignedDecimal(s) ==
    \/ s # <<>> /\ AllDigits(s)
    \/ \E p \in 1..Len(s) :
          /\ s[p] = "."
          /\ AllDigits(SubSeq(s, 1, p - 1))
          /\ AllDigits(SubSeq(s, p + 1, Len(s)))
          /\ Len(s) > 1

UnsignedVal(s) ==
    IF AllDigits(s) THEN WholeVal(s) * Scale
    ELSE LET p == CHOOSE p \in 1..Len(s) : s[p] = "."
         IN  WholeVal(SubSeq(s, 1, p - 1)) * Scale + FracVal(SubSeq(s, p + 1, Len(s)))

HasSign(s) == s # <<>> /\ s[1] \in {"+", "-"}

\* a decimal literal with an optional sign
IsDecimal(s) == IsUnsignedDecimal(IF HasSign(s) THEN Tail(s) ELSE s)

DecimalVal(s) ==
    IF HasSign(s)
    THEN (IF s[1] = "-" THEN -1 ELSE 1) * UnsignedVal(Tail(s))
    ELSE UnsignedVal(s)

\* Number(string): white space trimmed, the empty string is 0, a decimal
\* literal is its value, anything else is NaN (the strings of the model hold
\* no exponent, hexadecimal or Infinity literal)
StringToNumber(s) ==
    LET t == TrimRight(TrimLeft(s))
    IN  IF t = <<>> THEN Fix(0)
        ELSE IF IsDecimal(t) THEN Fix(DecimalVal(t))
        ELSE NaN

\* Number(v)
Number(v) ==
    CASE v.t = "undefined" -> NaN
      [] v.t = "null" -> Fix(0)
      [] v.t = "boolean" -> IF v.b THEN Fix(Scale) ELSE Fix(0)
      [] v.t = "number" -> v
      [] v.t = "string" -> StringToNumber(v.s)
      [] v.t = "function" -> NaN

\* parseFloat(string): the longest decimal literal that starts the string
\* after leading white space, NaN when there is none
parseFloat(s) ==
    LET t == TrimLeft(s)
        ks == {k \in 1..Len(t) : IsDecimal(SubSeq(t, 1, k))}
    IN  IF ks = {} THEN NaN
        ELSE Fix(DecimalVal(SubSeq(t, 1, CHOOSE k \in ks : \A j \in ks : j <= k)))

isNaN(n) == n.nan

\* relational operators on numbers: every comparison with NaN is false
Le(a, b) == ~a.nan /\ ~b.nan /\ a.v <= b.v
Gt(a, b) == ~a.nan /\ ~b.nan /\ a.v > b.v

----------------------------------------------------------------------------
(* app.js:21-24 *)

numUnguarded(v) == Number(v)

num(v) ==
    LET n == Number(v)
    IN  IF isNaN(n) THEN Fix(0) ELSE n

----------------------------------------------------------------------------
(* Startup: app.js:7-11 *)

\* cpdParam ? parseFloat(cpdParam) || 120 : 120, cpdParam being null or a string
CostPerDelayDayOf(cpdParam) ==
    IF Truthy(cpdParam) THEN Or(parseFloat(cpdParam.s), Int_(120)) ELSE Int_(120)

----------------------------------------------------------------------------
(* The delay of a row, as each place of the code reads it *)

\* app.js:33
SavingsDelay(row) ==
    num(Probe(row, <<"DelayDays", "delay_days", "delay", "Delay">>, Int_(0)))

\* app.js:54 (the on-time filter)
KpiOnTimeDelay(row) ==
    num(Probe(row, <<"actual_delay_days", "DelayDays">>, Int_(0)))

KpiLateDelayAsSavings(row) ==
    num(Probe(row, <<"DelayDays", "delay_days", "delay", "Delay">>, Int_(0)))

\* app.js:62 (the late filter)
KpiLateDelay(row) ==
    num(Probe(row, <<"actual_delay_days", "DelayDays">>, Int_(0)))

\* app.js:68 (the sum of the late delays)
KpiSumDelay(row) ==
    num(Probe(row, <<"actual_delay_days", "DelayDays">>, Int_(0)))

\* app.js:104
CarrierChartDelay(row) ==
    num(Probe(row, <<"actual_delay_days", "DelayDays">>, Int_(0)))

\* app.js:761
InsightCarrierDelay(row) ==
    num(Probe(row, <<"actual_delay_days", "DelayDays">>, Int_(0)))

\* app.js:786
InsightOnTimeDelay(row) ==
    num(Probe(row, <<"actual_delay_days", "DelayDays">>, Int_(0)))

\* app.js:954
TopLateDelay(row) ==
    num(Probe(row, <<"DelayDays", "delay_days", "delay", "Delay">>, Int_(0)))

\* app.js:1013
WeeklyDelay(row) ==
    num(Probe(row, <<"DelayDays", "delay_days", "delay", "Delay">>, Int_(0)))

----------------------------------------------------------------------------
(* Arithmetic helpers *)

RECURSIVE SumOver(_, _)
\* the sum of f[i] over the finite set S of indices
SumOver(f, S) ==
    IF S = {} THEN 0
    ELSE LET i == CHOOSE i \in S : TRUE IN f[i] + SumOver(f, S \ {i})

Abs(x) == IF x < 0 THEN -x ELSE x

\* (p / q).toFixed(1) for q > 0, as a count of tenths: the nearest tenth,
\* the larger in magnitude when two are equally near
toFixed1(p, q) ==
    (IF p < 0 THEN -1 ELSE 1) * ((20 * Abs(p) + q) \div (2 * q))

\* Math.round of the number v / Scale: the nearest integer, the larger when
\* two are equally near
MathRound(v) == (2 * v + Scale) \div (2 * Scale)

----------------------------------------------------------------------------
(* computeSavingsPotential: app.js:27-38 *)

\* the reduce of app.js:32-35, in units of 1/Scale (the product is exact when
\* the delay or the cost is a whole number, as in the rows of the model)
computeSavingsPotential(rs, cpd) ==
    IF Len(rs) = 0 THEN 0
    ELSE SumOver([i \in 1..Len(rs) |->
                    IF Gt(SavingsDelay(rs[i]), Int_(0))
                    THEN (SavingsDelay(rs[i]).v * cpd.v) \div Scale
                    ELSE 0],
                 1..Len(rs))

----------------------------------------------------------------------------
(* updateKPIs: app.js:41-90 *)

\* app.js:53-56, as the set of the indices kept by the filter
onTimeRows(rs) == {i \in 1..Len(rs) : Le(KpiOnTimeDelay(rs[i]), Int_(0))}

\* app.js:61-64
lateShipments(rs) == {i \in 1..Len(rs) : Gt(KpiLateDelay(rs[i]), Int_(0))}

\* app.js:67-69, in units of 1/Scale
totalDelay(rs) ==
    SumOver([i \in 1..Len(rs) |-> KpiSumDelay(rs[i]).v], lateShipments(rs))

\* app.js:79
DemoSavings == 187923

KpiUnset ==
    [called |-> FALSE, totalShipments |-> 0, onTimeRows |-> {}, lateShipments |-> {},
     onTimePercentage |-> 0, totalDelay |-> 0, avgDelay |-> 0, savings |-> 0,
     displaySavings |-> 0]

\* what updateKPIs(rs) computes and writes to the KPI elements
KpiOf(rs, cpd) ==
    LET savings == computeSavingsPotential(rs, cpd)
    IN  [called |-> TRUE,
         totalShipments |-> Len(rs),
         onTimeRows |-> onTimeRows(rs),
         lateShipments |-> lateShipments(rs),
         onTimePercentage |-> toFixed1(Cardinality(onTimeRows(rs)) * 100, Len(rs)),
         totalDelay |-> totalDelay(rs),
         avgDelay |-> IF Cardinality(lateShipments(rs)) > 0
                      THEN toFixed1(totalDelay(rs), Scale * Cardinality(lateShipments(rs)))
                      ELSE 0,
         savings |-> savings,
         displaySavings |-> MathRound(IF savings > 0 THEN savings ELSE DemoSavings * Scale)]

updateKPIs ==
    /\ kpi' = IF Len(rows) = 0 THEN kpi ELSE KpiOf(rows, COST_PER_DELAY_DAY)
    /\ called' = called \cup {"updateKPIs"}
    /\ UNCHANGED <<COST_PER_DELAY_DAY, rows, delayByCarrierChart, riskDistributionChart, ret>>
    /\ UNCHANGED <<urlCpd, costDistanceChart, modeEmissionsChart, insightsContainer>>
    /\ UNCHANGED pageVars

\* computeSavingsPotential(rows) called on its own
CallComputeSavingsPotential ==
    /\ ret' = [fn |-> "computeSavingsPotential", arg |-> Undefined,
               val |-> computeSavingsPotential(rows, COST_PER_DELAY_DAY)]
    /\ called' = called \cup {"computeSavingsPotential"}
    /\ UNCHANGED <<COST_PER_DELAY_DAY, rows, kpi, delayByCarrierChart, riskDistributionChart>>
    /\ UNCHANGED <<urlCpd, costDistanceChart, modeEmissionsChart, insightsContainer>>
    /\ UNCHANGED pageVars

NoRet == [fn |-> "none", arg |-> Undefined, val |-> 0]

----------------------------------------------------------------------------
(* Inputs of the KPI and savings functions *)

\* the values of the cpd URL parameter: absent, empty, not a number, 0,
\* positive, negative, a number followed by text
CpdParams ==
    {Null, Str(<<>>), Str(<<"x">>), Str(<<"0">>), Str(<<"5", "0">>),
     Str(<<"-", "5">>), Str(<<"1", "2", "0", "u">>)}

DelayRowPool ==
    {[actual_delay_days |-> Int_(3), carrier_name |-> Str(<<"A">>)],
     [actual_delay_days |-> Int_(-1), carrier_name |-> Str(<<"A">>)],
     [actual_delay_days |-> Int_(0), DelayDays |-> Int_(5)],
     [DelayDays |-> Int_(0)],
     [DelayDays |-> Int_(2), delay_days |-> Int_(-4)],
     [delay_days |-> Str(<<"4">>)],
     [Delay |-> Int_(1), carrier_name |-> Str(<<"B">>)],
     [actual_delay_days |-> Str(<<"x">>)]}

SeqsUpTo(S, n) == UNION {[1..k -> S] : k \in 0..n}

InitKPI ==
    /\ urlCpd \in CpdParams
    /\ COST_PER_DELAY_DAY = CostPerDelayDayOf(urlCpd)
    /\ rows \in SeqsUpTo(DelayRowPool, MaxRows)
    /\ kpi = KpiUnset
    /\ delayByCarrierChart = Null
    /\ riskDistributionChart = Null
    /\ ret = NoRet
    /\ called = {}
    /\ costDistanceChart = Null
    /\ modeEmissionsChart = Null
    /\ insightsContainer = <<>>
    /\ InitPage

NextKPI == updateKPIs \/ CallComputeSavingsPotential

SpecKPI == InitKPI /\ [][NextKPI]_vars

----------------------------------------------------------------------------
(* The resolution of delayDays as the data model documents it: the first  *)
(* of the five keys the row carries, coerced to a number, 0 when the row  *)
(* carries none.                                                          *)

DelayKeys == <<"actual_delay_days", "DelayDays", "delay_days", "delay", "Delay">>

FirstPresent(row, keys, dflt) ==
    IF \E i \in 1..Len(keys) : keys[i] \in DOMAIN row
    THEN row[keys[CHOOSE i \in 1..Len(keys) :
                    /\ keys[i] \in DOMAIN row
                    /\ \A j \in 1..(i - 1) : keys[j] \notin DOMAIN row]]
    ELSE dflt

DocumentedDelayDays(row) == num(FirstPresent(row, DelayKeys, Int_(0)))

IsLate(row) == Gt(DocumentedDelayDays(row), Int_(0))

----------------------------------------------------------------------------
(* Claims on updateKPIs and computeSavingsPotential (SpecKPI) *)

\* C1: after updateKPIs, every row is in exactly one of onTimeRows (delay <= 0,
\* a delay of 0 being on time) and lateShipments (delay > 0), so the two
\* lengths add up to the row count.
C1_OnTimeLatePartition ==
    kpi.called =>
        /\ kpi.totalShipments = Len(rows)
        /\ kpi.onTimeRows \cup kpi.lateShipments = 1..Len(rows)
        /\ kpi.onTimeRows \cap kpi.lateShipments = {}
        /\ Cardinality(kpi.onTimeRows) + Cardinality(kpi.lateShipments) = kpi.totalShipments

\* C1 witness: updateKPIs has run on rows of both kinds, one of them with a
\* delay of exactly 0 counted on time.
C1_Witness ==
    /\ kpi.called
    /\ kpi.lateShipments # {}
    /\ \E i \in kpi.onTimeRows :
          /\ "DelayDays" \in DOMAIN rows[i]
          /\ rows[i].DelayDays = Int_(0)
          /\ "actual_delay_days" \notin DOMAIN rows[i]

\* C2: the savings potential is >= 0, and it is 0 if and only if no row has
\* a resolved delayDays > 0.
C2_SavingsZeroIffNoLateRow ==
    ret.fn = "computeSavingsPotential" =>
        /\ ret.val >= 0
        /\ (ret.val = 0) <=> (\A i \in 1..Len(rows) : ~IsLate(rows[i]))

\* C3: when every row gives its delay under actual_delay_days, the on-time
\* percentage is 100 x (rows with delay <= 0) / count, the average delay is
\* the mean of the delays > 0, and the savings potential is the sum of the
\* delays > 0 times the cost per delay day (50, 3 and 360 for the delays 3
\* and -1 at 120 per day).
C3_ActualDelayDaysAggregates ==
    (/\ kpi.called
     /\ \A i \in 1..Len(rows) :
           /\ "actual_delay_days" \in DOMAIN rows[i]
           /\ \A k \in 2..5 : DelayKeys[k] \notin DOMAIN rows[i])
    =>
    LET d == [i \in 1..Len(rows) |-> num(rows[i].actual_delay_days).v]
        late == {i \in 1..Len(rows) : d[i] > 0}
        sumLate == SumOver(d, late)
    IN  /\ kpi.onTimePercentage
              = toFixed1(100 * Cardinality({i \in 1..Len(rows) : d[i] <= 0}), Len(rows))
        /\ kpi.avgDelay
              = (IF late = {} THEN 0 ELSE toFixed1(sumLate, Scale * Cardinality(late)))
        /\ kpi.savings = (sumLate * COST_PER_DELAY_DAY.v) \div Scale
        /\ (/\ Len(rows) = 2
            /\ d = <<3 * Scale, -1 * Scale>>
            /\ COST_PER_DELAY_DAY = Int_(120))
           => /\ kpi.onTimePercentage = 500
              /\ kpi.avgDelay = 30
              /\ kpi.savings = 360 * Scale

\* C4: every aggregate reads the delay of a row as the first present of
\* actual_delay_days, DelayDays, delay_days, delay, Delay (0 when none is
\* present), so a row is late in one aggregate iff it is late in all.
C4_OneDelayResolution ==
    kpi.called =>
        \A i \in 1..Len(rows) :
            /\ (i \in kpi.lateShipments) <=> IsLate(rows[i])
            /\ (i \in kpi.onTimeRows) <=> ~IsLate(rows[i])
            /\ SavingsDelay(rows[i]) = DocumentedDelayDays(rows[i])
            /\ CarrierChartDelay(rows[i]) = DocumentedDelayDays(rows[i])
            /\ InsightCarrierDelay(rows[i]) = DocumentedDelayDays(rows[i])
            /\ InsightOnTimeDelay(rows[i]) = DocumentedDelayDays(rows[i])
            /\ TopLateDelay(rows[i]) = DocumentedDelayDays(rows[i])
            /\ WeeklyDelay(rows[i]) = DocumentedDelayDays(rows[i])

----------------------------------------------------------------------------
(* num called on its own (SpecNum) *)

NumAlphabet == {"1", "-", ".", " ", "a"}

\* undefined, null, the booleans, NaN, numbers, and every string over
\* NumAlphabet of at most MaxStrLen characters
NumInputs ==
    {Undefined, Null, Bool(TRUE), Bool(FALSE), NaN, Int_(0), Int_(2), Int_(-3), Dec(0, 75)}
        \cup {Str(s) : s \in SeqsUpTo(NumAlphabet, MaxStrLen)}

CallNum ==
    /\ \E v \in NumInputs : ret' = [fn |-> "num", arg |-> v, val |-> num(v)]
    /\ called' = called \cup {"num"}
    /\ UNCHANGED <<COST_PER_DELAY_DAY, rows, kpi, delayByCarrierChart, riskDistributionChart>>
    /\ UNCHANGED <<urlCpd, costDistanceChart, modeEmissionsChart, insightsContainer>>
    /\ UNCHANGED pageVars

InitNum ==
    /\ urlCpd = Null
    /\ COST_PER_DELAY_DAY = CostPerDelayDayOf(urlCpd)
    /\ rows = <<>>
    /\ kpi = KpiUnset
    /\ delayByCarrierChart = Null
    /\ riskDistributionChart = Null
    /\ ret = NoRet
    /\ called = {}
    /\ costDistanceChart = Null
    /\ modeEmissionsChart = Null
    /\ insightsContainer = <<>>
    /\ InitPage

NextNum == CallNum

SpecNum == InitNum /\ [][NextNum]_vars

\* C5: num(v) is a number that is never NaN, for a number, a numeric or
\* non-numeric string, a boolean, null and undefined, and it is 0 whenever v is
\* missing or does not convert to a number.
C5_NumTotalNeverNaN ==
    ret.fn = "num" =>
        /\ ret.val.t = "number"
        /\ ~ret.val.nan
        /\ (ret.arg = Undefined \/ Number(ret.arg).nan) => ret.val = Int_(0)
        /\ (ret.arg.t = "string" /\ includes(ret.arg.s, <<"a">>)) => ret.val = Int_(0)
        /\ ret.arg \in {Str(<<"-">>), Str(<<".">>), Str(<<"1", " ", "1">>), NaN}
              => ret.val = Int_(0)
        /\ ret.arg = Str(<<" ", "1", ".">>) => ret.val = Int_(1)
        /\ ret.arg = Str(<<"-", ".", "1">>) => ret.val = Dec(0, -10)
        /\ ret.arg = Bool(TRUE) => ret.val = Int_(1)

\* C5 witness: num was called on a non-numeric string and returned 0.
C5_Witness ==
    /\ ret.fn = "num"
    /\ ret.arg = Str(<<"a", "1">>)
    /\ ret.val = Int_(0)

----------------------------------------------------------------------------
(* calculatePearsonCorrelation: app.js:917-934, and the points            *)
(* renderInsights hands it: app.js:845-849                                *)

\* app.js:846
InsightDistance(row) ==
    num(Probe(row, <<"route_distance_km", "distance_km", "DistanceKm">>, Int_(0)))

\* app.js:847
InsightCost(row) ==
    num(Probe(row, <<"cost_usd", "CostUSD", "cost">>, Int_(0)))

\* app.js:845-849
validPoints(rs) ==
    SelectSeq([i \in 1..Len(rs) |->
                  [distance |-> InsightDistance(rs[i]), cost |-> InsightCost(rs[i])]],
              LAMBDA point : Gt(point.distance, Int_(0)) /\ Gt(point.cost, Int_(0)))

\* app.js:924-928; coordinates in units of 1/Scale, products in 1/Scale^2
sumX(points) == SumOver([i \in 1..Len(points) |-> points[i].distance.v], 1..Len(points))
sumY(points) == SumOver([i \in 1..Len(points) |-> points[i].cost.v], 1..Len(points))
sumXY(points) ==
    SumOver([i \in 1..Len(points) |-> points[i].distance.v * points[i].cost.v],
            1..Len(points))
sumX2(points) ==
    SumOver([i \in 1..Len(points) |-> points[i].distance.v * points[i].distance.v],
            1..Len(points))
sumY2(points) ==
    SumOver([i \in 1..Len(points) |-> points[i].cost.v * points[i].cost.v],
            1..Len(points))

numeratorPlus(points) == Len(points) * sumXY(points) + sumX(points) * sumY(points)

\* app.js:930
numerator(points) == Len(points) * sumXY(points) - sumX(points) * sumY(points)

\* app.js:931: the number under Math.sqrt; the denominator is its square root
radicand(points) ==
    (Len(points) * sumX2(points) - sumX(points) * sumX(points))
        * (Len(points) * sumY2(points) - sumY(points) * sumY(points))

\* the returned number: 0 when divides is FALSE, and otherwise the quotient
\* numerator / sqrt(radicand) that the function computed
PearsonZero == [divides |-> FALSE, numerator |-> 0, radicand |-> 0]

PearsonNoZeroTest(points) ==
    IF Len(points) < 2 THEN PearsonZero
    ELSE [divides |-> TRUE, numerator |-> numerator(points), radicand |-> radicand(points)]

\* app.js:917-934 (sqrt(x) === 0 exactly when x = 0)
calculatePearsonCorrelation(points) ==
    IF Len(points) < 2 THEN PearsonZero
    ELSE IF radicand(points) = 0 THEN PearsonZero
    ELSE [divides |-> TRUE, numerator |-> numerator(points), radicand |-> radicand(points)]

\* calculatePearsonCorrelation called on the valid points of rows
CallCalculatePearsonCorrelation ==
    /\ ret' = [fn |-> "calculatePearsonCorrelation", arg |-> validPoints(rows),
               val |-> calculatePearsonCorrelation(validPoints(rows))]
    /\ called' = called \cup {"calculatePearsonCorrelation"}
    /\ UNCHANGED <<COST_PER_DELAY_DAY, rows, kpi, delayByCarrierChart, riskDistributionChart>>
    /\ UNCHANGED <<urlCpd, costDistanceChart, modeEmissionsChart, insightsContainer>>
    /\ UNCHANGED pageVars

\* rows with a distance and a cost of 1/Scale .. MaxCoord/Scale, and one row
\* without a cost
PointRowPool ==
    {[route_distance_km |-> Fix(x), cost_usd |-> Fix(y)] : x, y \in 1..MaxCoord}
        \cup {[route_distance_km |-> Fix(1)]}

InitPearson ==
    /\ urlCpd = Null
    /\ COST_PER_DELAY_DAY = CostPerDelayDayOf(urlCpd)
    /\ rows \in SeqsUpTo(PointRowPool, MaxPoints)
    /\ kpi = KpiUnset
    /\ delayByCarrierChart = Null
    /\ riskDistributionChart = Null
    /\ ret = NoRet
    /\ called = {}
    /\ costDistanceChart = Null
    /\ modeEmissionsChart = Null
    /\ insightsContainer = <<>>
    /\ InitPage

NextPearson == CallCalculatePearsonCorrelation

SpecPearson == InitPearson /\ [][NextPearson]_vars

AllEqual(f) == \A i, j \in DOMAIN f : f[i] = f[j]

\* C9: calculatePearsonCorrelation returns 0 for fewer than 2 points and
\* returns 0 when the denominator is 0 (all distances equal or all costs
\* equal); it never divides by zero.
C9_PearsonZeroCases ==
    ret.fn = "calculatePearsonCorrelation" =>
        LET points == ret.arg IN
        /\ Len(points) < 2 => ret.val = PearsonZero
        /\ radicand(points) = 0 => ret.val = PearsonZero
        /\ (\/ AllEqual([i \in 1..Len(points) |-> points[i].distance])
            \/ AllEqual([i \in 1..Len(points) |-> points[i].cost]))
              => ret.val = PearsonZero
        /\ ret.val.divides => ret.val.radicand # 0

\* C9 witness: at least 2 points with differing distances and one common
\* cost: the denominator is 0 and 0 is returned.
C9_Witness ==
    /\ ret.fn = "calculatePearsonCorrelation"
    /\ Len(ret.arg) >= 2
    /\ ~AllEqual([i \in 1..Len(ret.arg) |-> ret.arg[i].distance])
    /\ AllEqual([i \in 1..Len(ret.arg) |-> ret.arg[i].cost])
    /\ ret.val = PearsonZero

\* C10: for at least 2 points with positive distance and cost, |r| <= 1:
\* (n*sumXY - sumX*sumY)^2 <= (n*sumX2 - sumX^2)*(n*sumY2 - sumY^2).
C10_PearsonWithinUnit ==
    (ret.fn = "calculatePearsonCorrelation" /\ Len(ret.arg) >= 2) =>
        /\ ret.val.numerator * ret.val.numerator <= ret.val.radicand
        /\ ret.val.divides =>
              /\ ret.val.numerator
                    = Len(ret.arg) * sumXY(ret.arg) - sumX(ret.arg) * sumY(ret.arg)
              /\ ret.val.radicand > 0

\* C10 witness: three or more points that are correlated, but not perfectly.
C10_Witness ==
    /\ ret.fn = "calculatePearsonCorrelation"
    /\ Len(ret.arg) >= 3
    /\ ret.val.divides
    /\ ret.val.numerator < 0
    /\ ret.val.numerator * ret.val.numerator < ret.val.radicand

----------------------------------------------------------------------------
(* Plain objects used as maps ({} of app.js:100 and app.js:220): a         *)
(* sequence of [key, value] entries in the order Object.keys,              *)
(* Object.values and Object.entries enumerate them: the keys that are      *)
(* array indices first, in ascending numeric order, then the other keys    *)
(* in the order they were created.                                         *)

\* a canonical array index: "0", or digits that do not start with 0
IsArrayIndex(key) ==
    /\ key # <<>>
    /\ AllDigits(key)
    /\ (Len(key) = 1 \/ key[1] # "0")

ObjHas(obj, key) == \E i \in 1..Len(obj) : obj[i].key = key

ObjIndexOf(obj, key) == CHOOSE i \in 1..Len(obj) : obj[i].key = key

\* obj[key], for a key the object has
ObjGet(obj, key) == obj[ObjIndexOf(obj, key)].value

InsertAt(seq, pos, x) ==
    SubSeq(seq, 1, pos - 1) \o <<x>> \o SubSeq(seq, pos, Len(seq))

\* where a new key is enumerated
NewKeyPosition(obj, key) ==
    IF IsArrayIndex(key)
    THEN 1 + Cardinality({i \in 1..Len(obj) :
                            /\ IsArrayIndex(obj[i].key)
                            /\ WholeVal(obj[i].key) < WholeVal(key)})
    ELSE Len(obj) + 1

\* obj[key] = value
ObjPut(obj, key, value) ==
    IF ObjHas(obj, key)
    THEN [obj EXCEPT ![ObjIndexOf(obj, key)].value = value]
    ELSE InsertAt(obj, NewKeyPosition(obj, key), [key |-> key, value |-> value])

ObjKeys(obj) == [i \in 1..Len(obj) |-> obj[i].key]
ObjValues(obj) == [i \in 1..Len(obj) |-> obj[i].value]

----------------------------------------------------------------------------
(* createRiskDistributionChart: app.js:213-347 *)

Low == <<"L", "o", "w">>
Medium == <<"M", "e", "d", "i", "u", "m">>
High == <<"H", "i", "g", "h">>
Critical == <<"C", "r", "i", "t", "i", "c", "a", "l">>
Unknown == <<"U", "n", "k", "n", "o", "w", "n">>

\* app.js:223
RiskLevelOf(row) ==
    Probe(row, <<"risk_level", "RiskLevel", "risk", "ai_risk_score">>, Str(Unknown))

RiskByScoreStrict(riskScore) ==
    IF ~riskScore.nan /\ riskScore.v < Dec(0, 30).v THEN Low
    ELSE IF ~riskScore.nan /\ riskScore.v < Dec(0, 60).v THEN Medium
    ELSE IF ~riskScore.nan /\ riskScore.v < Dec(0, 80).v THEN High
    ELSE Critical

\* app.js:241-249 and 256-264
RiskByScore(riskScore) ==
    IF Le(riskScore, Dec(0, 30)) THEN Low
    ELSE IF Le(riskScore, Dec(0, 60)) THEN Medium
    ELSE IF Le(riskScore, Dec(0, 80)) THEN High
    ELSE Critical

\* app.js:226-265
NormalizedRisk(riskLevel) ==
    IF typeof(riskLevel) = "string"
    THEN LET lowerRisk == toLowerCase(riskLevel.s)
         IN  IF includes(lowerRisk, <<"l", "o", "w">>) \/ lowerRisk = <<"l">>
             THEN Low
             ELSE IF \/ includes(lowerRisk, <<"m", "e", "d", "i", "u", "m">>)
                     \/ includes(lowerRisk, <<"m", "e", "d">>)
                     \/ lowerRisk = <<"m">>
             THEN Medium
             ELSE IF includes(lowerRisk, <<"h", "i", "g", "h">>) \/ lowerRisk = <<"h">>
             THEN High
             ELSE IF \/ includes(lowerRisk, <<"c", "r", "i", "t", "i", "c", "a", "l">>)
                     \/ includes(lowerRisk, <<"c", "r", "i", "t">>)
             THEN Critical
             ELSE LET riskScore == num(riskLevel)
                  IN  IF ~isNaN(riskScore) THEN RiskByScore(riskScore)
                      ELSE riskLevel.s
    ELSE IF typeof(riskLevel) = "number"
    THEN RiskByScore(riskLevel)
    ELSE Unknown

\* app.js:220-268: riskCounts after the first k rows
RECURSIVE RiskCountsUpTo(_, _)
RiskCountsUpTo(rs, k) ==
    IF k = 0 THEN <<>>
    ELSE LET before == RiskCountsUpTo(rs, k - 1)
             normalizedRisk == NormalizedRisk(RiskLevelOf(rs[k]))
         IN  ObjPut(before, normalizedRisk,
                    (IF ObjHas(before, normalizedRisk)
                     THEN ObjGet(before, normalizedRisk) ELSE 0) + 1)

riskCounts(rs) == RiskCountsUpTo(rs, Len(rs))

LiveAfterRebuildKeepsOld(kind, handle) ==
    [liveCharts EXCEPT ![kind] = @ + (IF kind \in containers THEN 1 ELSE 0)]

\* app.js:132-154, 292-314, 374-396, 658-680: the chart that the handle
\* holds is destroyed, and a new one is created if the container is found
LiveAfterRebuild(kind, handle) ==
    [liveCharts EXCEPT ![kind] = (IF handle # Null THEN @ - 1 ELSE @)
                                    + (IF kind \in containers THEN 1 ELSE 0)]

\* what a call of a chart builder does to the charts of its container: it
\* returns early (skipped), or destroys the chart of the handle and creates
\* a new one in the container
Rebuild(kind, handle, skipped) ==
    /\ liveCharts' = IF skipped THEN liveCharts ELSE LiveAfterRebuild(kind, handle)
    /\ chartCall' = [kind |-> kind,
                     destroyed |-> ~skipped /\ handle # Null,
                     created |-> ~skipped /\ kind \in containers]
    /\ UNCHANGED <<fileHint, loadState, tourVars, containers>>

createRiskDistributionChartUnguarded ==
    /\ riskDistributionChart' =
          IF "chart-risk" \notin containers THEN Null
          ELSE [t |-> "object",
           labels |-> ObjKeys(riskCounts(rows)),
           data |-> ObjValues(riskCounts(rows))]
    /\ called' = called \cup {"createRiskDistributionChart"}
    /\ UNCHANGED <<COST_PER_DELAY_DAY, rows, kpi, delayByCarrierChart, ret>>
    /\ UNCHANGED <<urlCpd, costDistanceChart, modeEmissionsChart, insightsContainer>>
    /\ Rebuild("chart-risk", riskDistributionChart, FALSE)

\* app.js:213-347: with no rows the handle is left alone; otherwise the old
\* chart is destroyed and a new one holds the labels and the counts
createRiskDistributionChart ==
    /\ riskDistributionChart' =
          IF Len(rows) = 0 THEN riskDistributionChart
          ELSE IF "chart-risk" \notin containers THEN Null
          ELSE [t |-> "object",
                labels |-> ObjKeys(riskCounts(rows)),
                data |-> ObjValues(riskCounts(rows))]
    /\ called' = called \cup {"createRiskDistributionChart"}
    /\ UNCHANGED <<COST_PER_DELAY_DAY, rows, kpi, delayByCarrierChart, ret>>
    /\ UNCHANGED <<urlCpd, costDistanceChart, modeEmissionsChart, insightsContainer>>
    /\ Rebuild("chart-risk", riskDistributionChart, Len(rows) = 0)

RiskRowPool ==
    {[risk_level |-> Dec(0, 75)],
     [risk_level |-> Str(<<"m", "e", "d", "i", "u", "m", " ", "r", "i", "s", "k">>)],
     [RiskLevel |-> Str(<<"L", "O", "W">>)],
     [risk |-> Str(<<"H", "i", "g", "h">>)],
     [risk |-> Str(<<"c", "r", "i", "t">>)],
     [ai_risk_score |-> Dec(0, 30)],
     [ai_risk_score |-> Dec(0, 31)],
     [ai_risk_score |-> Dec(0, 60)],
     [ai_risk_score |-> Dec(0, 80)],
     [ai_risk_score |-> Dec(0, 81)],
     [risk_level |-> Str(<<"0", ".", "7", "5">>)],
     [risk_level |-> Str(<<"p", "e", "n", "d", "i", "n", "g">>)],
     [risk_level |-> Bool(TRUE)],
     [carrier_name |-> Str(<<"A">>)]}

InitRisk ==
    /\ urlCpd = Null
    /\ COST_PER_DELAY_DAY = CostPerDelayDayOf(urlCpd)
    /\ rows \in SeqsUpTo(RiskRowPool, MaxRiskRows)
    /\ kpi = KpiUnset
    /\ delayByCarrierChart = Null
    /\ riskDistributionChart = Null
    /\ ret = NoRet
    /\ called = {}
    /\ costDistanceChart = Null
    /\ modeEmissionsChart = Null
    /\ insightsContainer = <<>>
    /\ InitPage

NextRisk == createRiskDistributionChart

SpecRisk == InitRisk /\ [][NextRisk]_vars

----------------------------------------------------------------------------
(* Claims on the risk classification (SpecRisk) *)

RiskKeys == {"risk_level", "RiskLevel", "risk", "ai_risk_score"}

\* the level keywords a string contains, case-insensitively
KeywordLevels(s) ==
    LET l == toLowerCase(s)
    IN  {lv \in {Low, Medium, High, Critical} :
            \/ lv = Low /\ includes(l, <<"l", "o", "w">>)
            \/ lv = Medium /\ includes(l, <<"m", "e", "d">>)
            \/ lv = High /\ includes(l, <<"h", "i", "g", "h">>)
            \/ lv = Critical /\ includes(l, <<"c", "r", "i", "t">>)}

\* a number v against the thresholds 0.3, 0.6 and 0.8
ThresholdLevel(v) ==
    IF 10 * v.v <= 3 * Scale THEN Low
    ELSE IF 10 * v.v <= 6 * Scale THEN Medium
    ELSE IF 10 * v.v <= 8 * Scale THEN High
    ELSE Critical

\* a risk value the classification claim speaks of: a string with the
\* keyword of one level, or a number
IsKeywordOrNumber(v) ==
    \/ v.t = "string" /\ Cardinality(KeywordLevels(v.s)) = 1
    \/ v.t = "number" /\ ~v.nan

ClaimedLevel(v) ==
    IF v.t = "string" THEN CHOOSE lv \in KeywordLevels(v.s) : TRUE
    ELSE ThresholdLevel(v)

\* the count the chart shows for a label, 0 when it has no such label
ChartCount(chart, label) ==
    IF \E k \in 1..Len(chart.labels) : chart.labels[k] = label
    THEN chart.data[CHOOSE k \in 1..Len(chart.labels) : chart.labels[k] = label]
    ELSE 0

RiskCharted == "labels" \in DOMAIN riskDistributionChart

\* C7: a string risk value with a level keyword is classified by the keyword,
\* a numeric one by v <= 0.3 Low, v <= 0.6 Medium, v <= 0.8 High, else
\* Critical; risk_level 0.75 gives High and "medium risk" gives Medium.
C7_RiskClassification ==
    (/\ RiskCharted
     /\ \A i \in 1..Len(rows) : IsKeywordOrNumber(RiskLevelOf(rows[i])))
    =>
    /\ \A lv \in {Low, Medium, High, Critical, Unknown} :
          ChartCount(riskDistributionChart, lv)
              = Cardinality({i \in 1..Len(rows) : ClaimedLevel(RiskLevelOf(rows[i])) = lv})
    /\ rows = <<[risk_level |-> Dec(0, 75)]>>
          => riskDistributionChart.labels = <<High>> /\ riskDistributionChart.data = <<1>>
    /\ rows = <<[risk_level |-> Str(<<"m", "e", "d", "i", "u", "m", " ", "r", "i", "s", "k">>)]>>
          => riskDistributionChart.labels = <<Medium>> /\ riskDistributionChart.data = <<1>>

\* C7 witness: a chart built from a row with risk_level 0.75 and a row with
\* risk_level "medium risk".
C7_Witness ==
    /\ RiskCharted
    /\ \E i, j \in 1..Len(rows) :
          /\ rows[i] = [risk_level |-> Dec(0, 75)]
          /\ rows[j] = [risk_level |->
                           Str(<<"m", "e", "d", "i", "u", "m", " ", "r", "i", "s", "k">>)]
    /\ ChartCount(riskDistributionChart, High) = 1
    /\ ChartCount(riskDistributionChart, Medium) = 1

\* a row the bucket claim speaks of: no risk key at all, or a risk string
\* with no level keyword that is not numeric
HasNoRiskKey(row) == DOMAIN row \cap RiskKeys = {}

IsUnclassifiable(row) ==
    \/ HasNoRiskKey(row)
    \/ /\ RiskLevelOf(row).t = "string"
       /\ KeywordLevels(RiskLevelOf(row).s) = {}
       /\ Number(RiskLevelOf(row)).nan

ClaimedBucket(row) == IF HasNoRiskKey(row) THEN Unknown ELSE RiskLevelOf(row).s

\* C8: a risk string with no level keyword that is not numeric is counted in
\* a bucket labelled with the raw string, a row with no risk key in the bucket
\* "Unknown"; such rows are never counted as Low, Medium, High or Critical.
C8_RawStringAndUnknownBuckets ==
    (/\ RiskCharted
     /\ \A i \in 1..Len(rows) : IsUnclassifiable(rows[i]))
    =>
    /\ \A i \in 1..Len(rows) :
          ChartCount(riskDistributionChart, ClaimedBucket(rows[i]))
              = Cardinality({j \in 1..Len(rows) : ClaimedBucket(rows[j]) = ClaimedBucket(rows[i])})
    /\ \A lv \in {Low, Medium, High, Critical} : ChartCount(riskDistributionChart, lv) = 0

----------------------------------------------------------------------------
(* createDelayByCarrierChart: app.js:93-210 *)

\* app.js:119
MinShipments == 5

\* app.js:103; the value becomes a property key of carrierData (the
\* carriers of the model are strings, which are their own key)
CarrierOf(row) ==
    Probe(row, <<"carrier_name", "Carrier", "carrier">>, Str(Unknown)).s

\* app.js:100-115: carrierData after the first k rows
RECURSIVE CarrierDataUpTo(_, _)
CarrierDataUpTo(rs, k) ==
    IF k = 0 THEN <<>>
    ELSE LET before == CarrierDataUpTo(rs, k - 1)
             carrier == CarrierOf(rs[k])
             delayDays == CarrierChartDelay(rs[k])
             data == IF ObjHas(before, carrier) THEN ObjGet(before, carrier)
                     ELSE [totalDelay |-> 0, count |-> 0]
         IN  ObjPut(before, carrier,
                    [totalDelay |-> data.totalDelay + delayDays.v,
                     count |-> data.count + 1])

carrierData(rs) == CarrierDataUpTo(rs, Len(rs))

\* b.avgDelay - a.avgDelay > 0, avgDelay being totalDelay / count
AvgGreater(b, a) == b.totalDelay * a.count > a.totalDelay * b.count

\* Array.prototype.sort with (a, b) => b.avgDelay - a.avgDelay: descending,
\* and stable (elements that compare equal keep their order)
RECURSIVE SortByAvgDelayDesc(_)
SortByAvgDelayDesc(seq) ==
    IF Len(seq) <= 1 THEN seq
    ELSE LET front == SortByAvgDelayDesc(SubSeq(seq, 1, Len(seq) - 1))
             last == seq[Len(seq)]
             pos == 1 + Cardinality({i \in 1..Len(front) : ~AvgGreater(last, front[i])})
         IN  InsertAt(front, pos, last)

\* app.js:118-125
filteredCarriers(rs) ==
    LET entries == carrierData(rs)
        kept == SelectSeq(entries, LAMBDA en : en.value.count >= MinShipments)
    IN  SortByAvgDelayDesc([i \in 1..Len(kept) |->
            [name |-> kept[i].key,
             totalDelay |-> kept[i].value.totalDelay,
             count |-> kept[i].value.count]])

\* app.js:93-210: with no rows or no carrier of MinShipments rows the handle
\* is left alone; otherwise the old chart is destroyed and a new one holds
\* the names and avgDelay.toFixed(1) of the ranking
createDelayByCarrierChart ==
    /\ delayByCarrierChart' =
          IF Len(rows) = 0 \/ Len(filteredCarriers(rows)) = 0 THEN delayByCarrierChart
          ELSE IF "chart-delay-by-carrier" \notin containers THEN Null
          ELSE LET ranking == filteredCarriers(rows)
               IN  [t |-> "object",
                    labels |-> [i \in 1..Len(ranking) |-> ranking[i].name],
                    data |-> [i \in 1..Len(ranking) |->
                                 toFixed1(ranking[i].totalDelay, Scale * ranking[i].count)]]
    /\ called' = called \cup {"createDelayByCarrierChart"}
    /\ UNCHANGED <<COST_PER_DELAY_DAY, rows, kpi, riskDistributionChart, ret>>
    /\ UNCHANGED <<urlCpd, costDistanceChart, modeEmissionsChart, insightsContainer>>
    /\ Rebuild("chart-delay-by-carrier", delayByCarrierChart, Len(rows) = 0 \/ Len(filteredCarriers(rows)) = 0)

\* longest row array of the carrier ranking: two carriers of MinShipments rows
MaxCarrierRows == 2 * MinShipments + ExtraCarrierRows

CarrierRowPool ==
    {[carrier_name |-> Str(<<"2">>), actual_delay_days |-> Int_(1)],
     [Carrier |-> Str(<<"1">>), actual_delay_days |-> Int_(1)],
     [carrier |-> Str(<<"A">>), actual_delay_days |-> Int_(2)]}

InitCarrier ==
    /\ urlCpd = Null
    /\ COST_PER_DELAY_DAY = CostPerDelayDayOf(urlCpd)
    /\ rows \in SeqsUpTo(CarrierRowPool, MaxCarrierRows)
    /\ kpi = KpiUnset
    /\ delayByCarrierChart = Null
    /\ riskDistributionChart = Null
    /\ ret = NoRet
    /\ called = {}
    /\ costDistanceChart = Null
    /\ modeEmissionsChart = Null
    /\ insightsContainer = <<>>
    /\ InitPage

NextCarrier == createDelayByCarrierChart

SpecCarrier == InitCarrier /\ [][NextCarrier]_vars

----------------------------------------------------------------------------
(* Claims on the carrier delay ranking (SpecCarrier) *)

\* the carrier of a row as the data model documents it
DocumentedCarrier(row) ==
    FirstPresent(row, <<"carrier_name", "Carrier", "carrier">>, Str(Unknown)).s

RowsOfCarrier(c) == {i \in 1..Len(rows) : DocumentedCarrier(rows[i]) = c}

DelaySumOfCarrier(c) ==
    SumOver([i \in 1..Len(rows) |-> DocumentedDelayDays(rows[i]).v], RowsOfCarrier(c))

FirstSeen(c) == CHOOSE i \in RowsOfCarrier(c) : \A j \in RowsOfCarrier(c) : i <= j

RankedCarriers ==
    {c \in {DocumentedCarrier(rows[i]) : i \in 1..Len(rows)} :
        Cardinality(RowsOfCarrier(c)) >= 5}

\* carrier c comes before carrier d: a greater mean delay, or the same mean
\* delay and seen first
RanksBefore(c, d) ==
    LET mc == DelaySumOfCarrier(c) * Cardinality(RowsOfCarrier(d))
        md == DelaySumOfCarrier(d) * Cardinality(RowsOfCarrier(c))
    IN  mc > md \/ (mc = md /\ FirstSeen(c) < FirstSeen(d))

CarrierCharted == "labels" \in DOMAIN delayByCarrierChart

\* C6: the ranking holds exactly the carriers with at least 5 rows, each with
\* the mean delay of all its rows, in order of non-increasing mean delay,
\* carriers of equal mean delay in first-seen order.
C6_CarrierRanking ==
    "createDelayByCarrierChart" \in called =>
    /\ CarrierCharted <=> RankedCarriers # {}
    /\ CarrierCharted =>
          LET labels == delayByCarrierChart.labels
              data == delayByCarrierChart.data
          IN  /\ {labels[k] : k \in 1..Len(labels)} = RankedCarriers
              /\ Len(labels) = Cardinality(RankedCarriers)
              /\ \A k \in 1..Len(labels) :
                    data[k] = toFixed1(DelaySumOfCarrier(labels[k]),
                                       Scale * Cardinality(RowsOfCarrier(labels[k])))
              /\ \A k, l \in 1..Len(labels) :
                    k < l => RanksBefore(labels[k], labels[l])

----------------------------------------------------------------------------
(* Property reads on object literals, and the + of a compound assignment   *)

\* property names every object literal inherits from Object.prototype
\* (three of them; each names a built-in function)
constructor == <<"c", "o", "n", "s", "t", "r", "u", "c", "t", "o", "r">>
toString == <<"t", "o", "S", "t", "r", "i", "n", "g">>
valueOf == <<"v", "a", "l", "u", "e", "O", "f">>
ObjectPrototypeKeys == {constructor, toString, valueOf}

\* obj[key]: the own property, else the inherited one, else undefined
PropertyGet(obj, key) ==
    IF ObjHas(obj, key) THEN ObjGet(obj, key)
    ELSE IF key \in ObjectPrototypeKeys THEN Function(key)
    ELSE Undefined

\* the decimal digits of a natural number
RECURSIVE NatToString(_)
NatToString(n) ==
    IF n < 10 THEN <<Digits[n + 1]>>
    ELSE NatToString(n \div 10) \o <<Digits[(n % 10) + 1]>>

\* the digits after the point of f / 10^width, without trailing zeros
RECURSIVE FracToString(_, _)
FracToString(f, width) ==
    IF f = 0 THEN <<>>
    ELSE <<Digits[(f \div (10 ^ (width - 1))) + 1]>>
            \o FracToString(f % (10 ^ (width - 1)), width - 1)

\* String(n) for a number
NumberToString(n) ==
    IF n.nan THEN <<"N", "a", "N">>
    ELSE (IF n.v < 0 THEN <<"-">> ELSE <<>>)
            \o NatToString(Abs(n.v) \div Scale)
            \o (IF Abs(n.v) % Scale = 0 THEN <<>>
                ELSE <<".">> \o FracToString(Abs(n.v) % Scale, FracDigits))

\* String(f) for a built-in function
FunctionToString(f) ==
    <<"f", "u", "n", "c", "t", "i", "o", "n", " ">>
        \o (IF f.name = constructor THEN <<"O", "b", "j", "e", "c", "t">> ELSE f.name)
        \o <<"(", ")", " ", "{", " ", "[", "n", "a", "t", "i", "v", "e", " ",
             "c", "o", "d", "e", "]", " ", "}">>

\* String(v) for the values that reach a + in the model
StringOf(v) ==
    CASE v.t = "string" -> v.s
      [] v.t = "number" -> NumberToString(v)
      [] v.t = "function" -> FunctionToString(v)

\* a + b: the sum of two numbers (NaN when one is NaN), the concatenation
\* when one operand is a string or a function
Plus(a, b) ==
    IF a.t = "number" /\ b.t = "number"
    THEN (IF a.nan \/ b.nan THEN NaN ELSE Fix(a.v + b.v))
    ELSE Str(StringOf(a) \o StringOf(b))

\* Math.round(v), v being coerced to a number first
Math_round(v) ==
    IF Number(v).nan THEN NaN ELSE Int_(MathRound(Number(v).v))

----------------------------------------------------------------------------
(* createModeEmissionsChart: app.js:602-742 *)

Air == <<"A", "i", "r">>
Road == <<"R", "o", "a", "d">>
Rail == <<"R", "a", "i", "l">>
Sea == <<"S", "e", "a">>

\* app.js:610-615
factors ==
    <<[key |-> Air, value |-> Int_(500)],
      [key |-> Road, value |-> Int_(62)],
      [key |-> Rail, value |-> Int_(22)],
      [key |-> Sea, value |-> Int_(10)]>>

\* app.js:623
ChartMode(row) ==
    Probe(row, <<"transport_mode", "mode", "Mode">>, Str(Unknown))

\* app.js:626
ChartActualEmissionsKg(row) ==
    num(Probe(row, <<"emissions_kg", "EmissionsKg", "carbon_emissions_kg">>, Int_(0)))

\* app.js:630
ChartDistanceKm(row) ==
    num(Probe(row, <<"route_distance_km", "distance_km", "DistanceKm">>, Int_(0)))

\* app.js:631
ChartWeightKg(row) ==
    num(Probe(row, <<"weight_kg", "WeightKg">>, Int_(0)))

\* app.js:632 and 875 (the weights of the model are whole multiples of
\* 1000 / Scale kg, so the quotient is exact)
tonsOf(weightKg) ==
    IF Gt(weightKg, Int_(0)) THEN Fix(weightKg.v \div 1000) ELSE Int_(1)

\* app.js:635 and 876: factors[mode] || factors.Road
factorOf(mode) ==
    Or(PropertyGet(factors, StringOf(mode)), PropertyGet(factors, Road))

\* app.js:638 and 877: (distanceKm * factor * tons) / 1000; NaN when the
\* factor is not a number (the products of the model divide exactly)
EstimatedEmissionsKg(distanceKm, factor, tons) ==
    IF Number(factor).nan THEN NaN
    ELSE Fix((((distanceKm.v * (factor.v \div Scale)) \div 1000) * tons.v) \div Scale)

\* app.js:626-639
ChartEmissionsKg(row) ==
    IF Le(ChartActualEmissionsKg(row), Int_(0))
    THEN EstimatedEmissionsKg(ChartDistanceKm(row), factorOf(ChartMode(row)),
                              tonsOf(ChartWeightKg(row)))
    ELSE ChartActualEmissionsKg(row)

\* app.js:618-647: modeEmissions after the first k rows
RECURSIVE ModeEmissionsUpTo(_, _)
ModeEmissionsUpTo(rs, k) ==
    IF k = 0 THEN <<>>
    ELSE LET before == ModeEmissionsUpTo(rs, k - 1)
             mode == StringOf(ChartMode(rs[k]))
             zeroed == IF ~Truthy(PropertyGet(before, mode))
                       THEN ObjPut(before, mode, Int_(0))
                       ELSE before
         IN  ObjPut(zeroed, mode, Plus(PropertyGet(zeroed, mode), ChartEmissionsKg(rs[k])))

modeEmissions(rs) == ModeEmissionsUpTo(rs, Len(rs))

\* app.js:619 and 646: totalEmissions after the first k rows
RECURSIVE TotalEmissionsUpTo(_, _)
TotalEmissionsUpTo(rs, k) ==
    IF k = 0 THEN Int_(0)
    ELSE Plus(TotalEmissionsUpTo(rs, k - 1), ChartEmissionsKg(rs[k]))

totalEmissions(rs) == TotalEmissionsUpTo(rs, Len(rs))

\* app.js:602-742: with no rows nothing is built and undefined is returned;
\* otherwise the old chart is destroyed, a new one holds the modes and the
\* rounded per-mode totals, and totalEmissions is returned
createModeEmissionsChart ==
    /\ modeEmissionsChart' =
          IF Len(rows) = 0 THEN modeEmissionsChart
          ELSE IF "chart-mode-emissions" \notin containers THEN Null
          ELSE LET totals == modeEmissions(rows)
               IN  [t |-> "object",
                    labels |-> ObjKeys(totals),
                    data |-> [k \in 1..Len(totals) |-> Math_round(totals[k].value)]]
    /\ ret' = [fn |-> "createModeEmissionsChart", arg |-> Undefined,
               val |-> IF Len(rows) = 0 \/ "chart-mode-emissions" \notin containers
                       THEN Undefined ELSE totalEmissions(rows)]
    /\ called' = called \cup {"createModeEmissionsChart"}
    /\ UNCHANGED <<COST_PER_DELAY_DAY, rows, kpi, delayByCarrierChart, riskDistributionChart>>
    /\ UNCHANGED <<urlCpd, costDistanceChart, insightsContainer>>
    /\ Rebuild("chart-mode-emissions", modeEmissionsChart, Len(rows) = 0)

----------------------------------------------------------------------------
(* renderInsights: app.js:745-914.  The insights array is a sequence of    *)
(* records, one per sentence, each with the values its template shows.     *)

savingsInsightWithPlaceholder(rs, cpd) ==
    [kind |-> "savings",
     amount |-> KpiOf(rs, cpd).displaySavings,
     costPerDelayDay |-> cpd]

\* app.js:754-755
savingsInsight(rs, cpd) ==
    [kind |-> "savings",
     amount |-> MathRound(computeSavingsPotential(rs, cpd)),
     costPerDelayDay |-> cpd]

\* app.js:760
InsightCarrier(row) ==
    Probe(row, <<"carrier_name", "Carrier", "carrier">>, Str(Unknown))

\* app.js:758-770: carrierDelays after the first k rows.  A carrier that
\* names an inherited property finds the built-in function instead of a
\* missing entry; the sums then go to that function and carrierDelays gets
\* no entry.
RECURSIVE CarrierDelaysUpTo(_, _)
CarrierDelaysUpTo(rs, k) ==
    IF k = 0 THEN <<>>
    ELSE LET before == CarrierDelaysUpTo(rs, k - 1)
             carrier == StringOf(InsightCarrier(rs[k]))
             delayDays == InsightCarrierDelay(rs[k])
             found == PropertyGet(before, carrier)
         IN  IF ~Gt(delayDays, Int_(0)) THEN before
             ELSE IF found.t = "function" THEN before
             ELSE LET data == IF Truthy(found) THEN found
                              ELSE [t |-> "object", totalDelay |-> 0, count |-> 0]
                  IN  ObjPut(before, carrier,
                             [t |-> "object",
                              totalDelay |-> data.totalDelay + delayDays.v,
                              count |-> data.count + 1])

carrierDelays(rs) == CarrierDelaysUpTo(rs, Len(rs))

\* app.js:772-778: the first of the entries sorted by descending avgDelay,
\* undefined when there is none
worstCarrier(rs) ==
    LET entries == carrierDelays(rs)
        sorted == SortByAvgDelayDesc([i \in 1..Len(entries) |->
                      [t |-> "object",
                       name |-> entries[i].key,
                       totalDelay |-> entries[i].value.totalDelay,
                       count |-> entries[i].value.count]])
    IN  IF Len(sorted) = 0 THEN Undefined ELSE sorted[1]

\* app.js:780-782
worstCarrierInsights(rs) ==
    LET worst == worstCarrier(rs)
    IN  IF Truthy(worst) /\ worst.count >= 2
        THEN <<[kind |-> "worstCarrier",
                carrier |-> worst.name,
                avgDelay |-> toFixed1(worst.totalDelay, Scale * worst.count),
                count |-> worst.count]>>
        ELSE <<>>

\* app.js:785-790
onTimeInsight(rs) ==
    LET onTime == {i \in 1..Len(rs) : Le(InsightOnTimeDelay(rs[i]), Int_(0))}
    IN  [kind |-> "onTime",
         onTimeRate |-> toFixed1(Cardinality(onTime) * 100, Len(rs)),
         shipments |-> Len(rs)]

\* app.js:795
InsightRiskLevelOf(row) ==
    Probe(row, <<"risk_level", "RiskLevel", "risk", "ai_risk_score">>, Str(Unknown))

\* app.js:798-833
InsightNormalizedRisk(riskLevel) ==
    IF typeof(riskLevel) = "string"
    THEN LET lowerRisk == toLowerCase(riskLevel.s)
         IN  IF includes(lowerRisk, <<"l", "o", "w">>) \/ lowerRisk = <<"l">>
             THEN Low
             ELSE IF \/ includes(lowerRisk, <<"m", "e", "d", "i", "u", "m">>)
                     \/ includes(lowerRisk, <<"m", "e", "d">>)
                     \/ lowerRisk = <<"m">>
             THEN Medium
             ELSE IF includes(lowerRisk, <<"h", "i", "g", "h">>) \/ lowerRisk = <<"h">>
             THEN High
             ELSE IF \/ includes(lowerRisk, <<"c", "r", "i", "t", "i", "c", "a", "l">>)
                     \/ includes(lowerRisk, <<"c", "r", "i", "t">>)
             THEN Critical
             ELSE LET riskScore == num(riskLevel)
                  IN  IF ~isNaN(riskScore) THEN RiskByScore(riskScore)
                      ELSE Unknown
    ELSE IF typeof(riskLevel) = "number"
    THEN RiskByScore(riskLevel)
    ELSE Unknown

\* app.js:793-836: riskCounts after the first k rows
RECURSIVE InsightRiskCountsUpTo(_, _)
InsightRiskCountsUpTo(rs, k) ==
    IF k = 0 THEN <<>>
    ELSE LET before == InsightRiskCountsUpTo(rs, k - 1)
             normalizedRisk == InsightNormalizedRisk(InsightRiskLevelOf(rs[k]))
         IN  ObjPut(before, normalizedRisk,
                    Plus(Or(PropertyGet(before, normalizedRisk), Int_(0)), Int_(1)))

highRiskCountHighOnly(rs) ==
    LET counts == InsightRiskCountsUpTo(rs, Len(rs))
    IN  Or(PropertyGet(counts, High), Int_(0)).v \div Scale

\* app.js:838, as a count
highRiskCount(rs) ==
    LET counts == InsightRiskCountsUpTo(rs, Len(rs))
    IN  Plus(Or(PropertyGet(counts, High), Int_(0)),
             Or(PropertyGet(counts, Critical), Int_(0))).v \div Scale

\* app.js:839-842
riskInsights(rs) ==
    LET count == highRiskCount(rs)
    IN  IF count > 0
        THEN <<[kind |-> "risk", highRiskPercent |-> toFixed1(count * 100, Len(rs))]>>
        ELSE <<>>

\* Math.abs(correlation) >= p / q for the returned quotient
\* numerator / sqrt(radicand), 0 when nothing was divided
AbsCorrelationAtLeast(correlation, p, q) ==
    /\ correlation.divides
    /\ q * q * correlation.numerator * correlation.numerator
          >= p * p * correlation.radicand

correlationInsightsFromTwo(rs) ==
    LET points == validPoints(rs)
        correlation == calculatePearsonCorrelation(points)
    IN  IF Len(points) >= 2 /\ AbsCorrelationAtLeast(correlation, 3, 10)
        THEN <<[kind |-> "correlation",
                strength |-> IF AbsCorrelationAtLeast(correlation, 7, 10)
                             THEN "strong" ELSE "moderate",
                direction |-> IF correlation.numerator > 0 THEN "positive" ELSE "negative",
                correlation |-> correlation]>>
        ELSE <<>>

\* app.js:851-858
correlationInsights(rs) ==
    LET points == validPoints(rs)
        correlation == calculatePearsonCorrelation(points)
    IN  IF Len(points) >= 3 /\ AbsCorrelationAtLeast(correlation, 3, 10)
        THEN <<[kind |-> "correlation",
                strength |-> IF AbsCorrelationAtLeast(correlation, 7, 10)
                             THEN "strong" ELSE "moderate",
                direction |-> IF correlation.numerator > 0 THEN "positive" ELSE "negative",
                correlation |-> correlation]>>
        ELSE <<>>

\* app.js:865
RouteOrigin(row) == Probe(row, <<"origin_city", "Origin">>, Str(Unknown))

\* app.js:866
RouteDestination(row) == Probe(row, <<"destination_city", "Destination">>, Str(Unknown))

\* app.js:867 (the two characters -> stand for the arrow of the template)
routeOf(row) ==
    StringOf(RouteOrigin(row)) \o <<" ", "-", ">", " ">> \o StringOf(RouteDestination(row))

\* app.js:869
RouteActualEmissionsKg(row) ==
    num(Probe(row, <<"emissions_kg", "EmissionsKg", "carbon_emissions_kg">>, Int_(0)))

\* app.js:872
RouteMode(row) ==
    Probe(row, <<"transport_mode", "mode", "Mode">>, Str(Road))

\* app.js:873
RouteDistanceKm(row) ==
    num(Probe(row, <<"route_distance_km", "distance_km", "DistanceKm">>, Int_(0)))

\* app.js:874
RouteWeightKg(row) ==
    num(Probe(row, <<"weight_kg", "WeightKg">>, Int_(0)))

\* app.js:869-878
RouteEmissionsKg(row) ==
    IF Le(RouteActualEmissionsKg(row), Int_(0))
    THEN EstimatedEmissionsKg(RouteDistanceKm(row), factorOf(RouteMode(row)),
                              tonsOf(RouteWeightKg(row)))
    ELSE RouteActualEmissionsKg(row)

\* app.js:861-881: routeEmissions after the first k rows
RECURSIVE RouteEmissionsUpTo(_, _)
RouteEmissionsUpTo(rs, k) ==
    IF k = 0 THEN <<>>
    ELSE LET before == RouteEmissionsUpTo(rs, k - 1)
             route == routeOf(rs[k])
         IN  ObjPut(before, route,
                    Plus(Or(PropertyGet(before, route), Int_(0)), RouteEmissionsKg(rs[k])))

routeEmissions(rs) == RouteEmissionsUpTo(rs, Len(rs))

\* b[1] - a[1] > 0
TotalGreater(b, a) == Gt(b.value, a.value)

\* Array.prototype.sort with (a, b) => b[1] - a[1] on totals none of which
\* is NaN: descending and stable
RECURSIVE SortByTotalDesc(_)
SortByTotalDesc(seq) ==
    IF Len(seq) <= 1 THEN seq
    ELSE LET front == SortByTotalDesc(SubSeq(seq, 1, Len(seq) - 1))
             last == seq[Len(seq)]
             pos == 1 + Cardinality({i \in 1..Len(front) : ~TotalGreater(last, front[i])})
         IN  InsertAt(front, pos, last)

\* app.js:883-884: the entries that can come first after the sort.  A NaN
\* total makes the comparator return NaN, which sort takes as "equal"; when
\* the other totals differ the comparator is then not a consistent order and
\* the order of the result is implementation-defined, so any entry can be
\* first.  With no entry there is no top route.
topRoutes(rs) ==
    LET entries == routeEmissions(rs)
        numbers == {entries[i].value.v : i \in {j \in 1..Len(entries) : ~entries[j].value.nan}}
    IN  IF Len(entries) = 0 THEN {Undefined}
        ELSE IF (\E i \in 1..Len(entries) : entries[i].value.nan) /\ Cardinality(numbers) > 1
        THEN {entries[i] : i \in 1..Len(entries)}
        ELSE {SortByTotalDesc(entries)[1]}

\* app.js:886-888
topRouteInsights(topRoute) ==
    IF topRoute # Undefined
    THEN <<[kind |-> "topRoute", route |-> topRoute.key,
            emissions |-> Math_round(topRoute.value)]>>
    ELSE <<>>

\* app.js:751-888: the insights array, given the entry the sort put first
insightsOf(rs, cpd, topRoute) ==
    <<savingsInsight(rs, cpd)>>
        \o worstCarrierInsights(rs)
        \o <<onTimeInsight(rs)>>
        \o riskInsights(rs)
        \o correlationInsights(rs)
        \o topRouteInsights(topRoute)

\* app.js:745-914: with no rows nothing is rendered; otherwise the cards of
\* the container are replaced by one card per insight
renderInsights ==
    /\ \E topRoute \in topRoutes(rows) :
          insightsContainer' =
              IF Len(rows) = 0 THEN insightsContainer
              ELSE insightsOf(rows, COST_PER_DELAY_DAY, topRoute)
    /\ called' = called \cup {"renderInsights"}
    /\ UNCHANGED <<COST_PER_DELAY_DAY, rows, kpi, delayByCarrierChart, riskDistributionChart, ret>>
    /\ UNCHANGED <<urlCpd, costDistanceChart, modeEmissionsChart>>
    /\ UNCHANGED pageVars

\* longest row array of the emission totals
MaxEmissionRows == 3

Lyon == <<"L", "y", "o", "n">>
Oslo == <<"O", "s", "l", "o">>

\* the Air row of 1000 km and 2000 kg
AirRow ==
    [transport_mode |-> Str(Air), route_distance_km |-> Int_(1000), weight_kg |-> Int_(2000),
     origin_city |-> Str(Lyon), destination_city |-> Str(Oslo)]

\* rows with and without actual emissions, with and without a weight, with a
\* known, an unknown, a lower-case and an inherited-property mode, and one
\* that gives its distance under two keys
EmissionRowPool ==
    {AirRow,
     [mode |-> Str(Sea), distance_km |-> Int_(100), Origin |-> Str(Lyon)],
     [Mode |-> Str(<<"a", "i", "r">>), route_distance_km |-> Int_(100),
      origin_city |-> Str(Lyon), destination_city |-> Str(Oslo)],
     [transport_mode |-> Str(Rail), route_distance_km |-> Int_(100), emissions_kg |-> Int_(50)],
     [transport_mode |-> Str(Road), DistanceKm |-> Int_(200), EmissionsKg |-> Int_(-5),
      Destination |-> Str(Oslo)],
     [transport_mode |-> Str(Air), DistanceKm |-> Int_(1000), distance_km |-> Int_(500),
      weight_kg |-> Int_(2000)],
     [transport_mode |-> Str(constructor), route_distance_km |-> Int_(100)],
     [carrier_name |-> Str(<<"A">>)]}

InitEmissions ==
    /\ urlCpd = Null
    /\ COST_PER_DELAY_DAY = CostPerDelayDayOf(urlCpd)
    /\ rows \in SeqsUpTo(EmissionRowPool, MaxEmissionRows)
    /\ kpi = KpiUnset
    /\ delayByCarrierChart = Null
    /\ riskDistributionChart = Null
    /\ ret = NoRet
    /\ called = {}
    /\ costDistanceChart = Null
    /\ modeEmissionsChart = Null
    /\ insightsContainer = <<>>
    /\ InitPage

NextEmissions == createModeEmissionsChart \/ renderInsights

SpecEmissions == InitEmissions /\ [][NextEmissions]_vars

----------------------------------------------------------------------------
(* Claims on the emission estimate (SpecEmissions) *)

\* the canonical fields of a row as the data model documents them
DocumentedMode(row) ==
    FirstPresent(row, <<"transport_mode", "mode", "Mode">>, Str(Unknown))

DocumentedEmissionsKg(row) ==
    num(FirstPresent(row, <<"emissions_kg", "EmissionsKg", "carbon_emissions_kg">>, Int_(0)))

DocumentedDistanceKm(row) ==
    num(FirstPresent(row, <<"route_distance_km", "DistanceKm", "distance_km">>, Int_(0)))

DocumentedWeightKg(row) ==
    num(FirstPresent(row, <<"weight_kg", "WeightKg">>, Int_(0)))

\* Air 500, Road 62, Rail 22, Sea 10, and 62 for every other mode
ClaimedFactor(mode) ==
    CASE mode = Str(Air) -> 500
      [] mode = Str(Road) -> 62
      [] mode = Str(Rail) -> 22
      [] mode = Str(Sea) -> 10
      [] OTHER -> 62

\* the emission of a row in units of 1/Scale kg: the resolved emissionsKg
\* when > 0, else distanceKm x factor(mode) x tons / 1000
ClaimedEmission(row) ==
    IF DocumentedEmissionsKg(row).v > 0 THEN DocumentedEmissionsKg(row).v
    ELSE LET perTon == (DocumentedDistanceKm(row).v * ClaimedFactor(DocumentedMode(row)))
                           \div 1000
         IN  IF DocumentedWeightKg(row).v > 0
             THEN (perTon * (DocumentedWeightKg(row).v \div 1000)) \div Scale
             ELSE perTon

\* C11: the emission of a row is its resolved emissionsKg when that is > 0,
\* and otherwise distanceKm x factor(mode) x tons / 1000 with tons =
\* weightKg/1000 if weightKg > 0 and 1 otherwise, and factor Air 500, Road 62,
\* Rail 22, Sea 10 and 62 for every other mode; the total returned for the
\* rows is the sum of these, and 1000 for the Air row of 1000 km and 2000 kg.
C11_RowEmission ==
    (ret.fn = "createModeEmissionsChart" /\ Len(rows) > 0) =>
        /\ \A i \in 1..Len(rows) : ChartEmissionsKg(rows[i]) = Fix(ClaimedEmission(rows[i]))
        /\ ret.val = Fix(SumOver([i \in 1..Len(rows) |-> ClaimedEmission(rows[i])],
                                 1..Len(rows)))
        /\ rows = <<AirRow>> => ret.val = Int_(1000)

\* a sequence of totals all of which are numbers and not NaN
AllNumbers(totals) ==
    \A k \in 1..Len(totals) : totals[k].t = "number" /\ ~totals[k].nan

SumOfTotals(totals) == SumOver([k \in 1..Len(totals) |-> totals[k].v], 1..Len(totals))

\* the top-route sentences among the cards of the container
TopRouteCards ==
    {k \in 1..Len(insightsContainer) : insightsContainer[k].kind = "topRoute"}

\* C12: for a non-empty row set, every row adds the same emission to one mode
\* bucket and to one route bucket, so the per-mode totals add up to the total
\* createModeEmissionsChart returns and to the sum of the per-route totals of
\* renderInsights; the reported top route has a total >= every route's.
C12_EmissionTotalsAgree ==
    (/\ ret.fn = "createModeEmissionsChart"
     /\ "renderInsights" \in called
     /\ Len(rows) > 0)
    =>
    LET modeTotals == ObjValues(modeEmissions(rows))
        routeTotals == ObjValues(routeEmissions(rows))
    IN  /\ \A i \in 1..Len(rows) : ChartEmissionsKg(rows[i]) = RouteEmissionsKg(rows[i])
        /\ AllNumbers(modeTotals) /\ AllNumbers(routeTotals) /\ AllNumbers(<<ret.val>>)
        /\ SumOfTotals(modeTotals) = ret.val.v
        /\ SumOfTotals(routeTotals) = ret.val.v
        /\ \E k \in TopRouteCards :
              /\ ObjHas(routeEmissions(rows), insightsContainer[k].route)
              /\ insightsContainer[k].emissions
                    = Math_round(ObjGet(routeEmissions(rows), insightsContainer[k].route))
              /\ \A j \in 1..Len(routeTotals) :
                    Le(routeTotals[j],
                       ObjGet(routeEmissions(rows), insightsContainer[k].route))

----------------------------------------------------------------------------
(* renderOutliersAndAnomalies, the top late shipments: app.js:952-1001 *)

\* app.js:955
OutlierShipmentId(row) ==
    Probe(row, <<"ID", "id", "Reference", "reference">>, Str(<<"-">>))

\* app.js:956
OutlierCarrier(row) == Probe(row, <<"Carrier", "carrier">>, Str(Unknown))

\* app.js:957
OutlierOrigin(row) == Probe(row, <<"Origin", "origin", "origin_city">>, Str(Unknown))

\* app.js:958
OutlierDestination(row) ==
    Probe(row, <<"Destination", "destination", "destination_city">>, Str(Unknown))

\* app.js:953-967 (the two characters -> stand for the arrow of the template)
shipmentOf(row) ==
    [shipmentId |-> OutlierShipmentId(row),
     carrier |-> OutlierCarrier(row),
     lane |-> StringOf(OutlierOrigin(row)) \o <<" ", "-", ">", " ">>
                  \o StringOf(OutlierDestination(row)),
     delayDays |-> TopLateDelay(row)]

\* Array.prototype.sort with (a, b) => b.delayDays - a.delayDays: descending
\* and stable
RECURSIVE SortByDelayDesc(_)
SortByDelayDesc(seq) ==
    IF Len(seq) <= 1 THEN seq
    ELSE LET front == SortByDelayDesc(SubSeq(seq, 1, Len(seq) - 1))
             last == seq[Len(seq)]
             pos == 1 + Cardinality({i \in 1..Len(front) :
                                        ~Gt(last.delayDays, front[i].delayDays)})
         IN  InsertAt(front, pos, last)

\* app.js:970
TopLateCount == 5

\* slice(0, n)
slice0(seq, n) == SubSeq(seq, 1, IF Len(seq) < n THEN Len(seq) ELSE n)

\* app.js:952-970
topLateShipments(rs) ==
    slice0(SortByDelayDesc(SelectSeq([i \in 1..Len(rs) |-> shipmentOf(rs[i])],
                                     LAMBDA shipment : Gt(shipment.delayDays, Int_(0)))),
           TopLateCount)

\* app.js:972-1001
lateShipmentCards(rs) ==
    LET lateShipments_ == topLateShipments(rs)
    IN  IF Len(lateShipments_) > 0
        THEN <<[kind |-> "lateShipments", shipments |-> lateShipments_]>>
        ELSE <<>>

----------------------------------------------------------------------------
(* The date library of app.js:1010-1012.  dayjs and the plug-ins that give *)
(* format the tokens GGGG and WW are loaded by the page, not by app.js; the *)
(* week key is the ISO week of the data model: the week-year and the week  *)
(* number of the Thursday of the date's Monday-to-Sunday week.             *)

\* a string of the form YYYY-MM-DD
IsIsoDate(s) ==
    /\ Len(s) = 10
    /\ s[5] = "-" /\ s[8] = "-"
    /\ \A p \in {1, 2, 3, 4, 6, 7, 9, 10} : IsDigit(s[p])

\* dayjs(dateField) for a string: a YYYY-MM-DD string is that date, a string
\* without a digit is an invalid date (the date strings of the model are of
\* these two kinds, and name days that exist)
dayjs(dateField) ==
    IF dateField.t = "string" /\ IsIsoDate(dateField.s)
    THEN [valid |-> TRUE,
          year |-> WholeVal(SubSeq(dateField.s, 1, 4)),
          month |-> WholeVal(SubSeq(dateField.s, 6, 7)),
          day |-> WholeVal(SubSeq(dateField.s, 9, 10))]
    ELSE [valid |-> FALSE, year |-> 0, month |-> 0, day |-> 0]

isValid(parsedDate) == parsedDate.valid

IsLeapYear(y) == (y % 4 = 0 /\ y % 100 # 0) \/ y % 400 = 0

DaysInMonth(y, m) ==
    IF m = 2 THEN (IF IsLeapYear(y) THEN 29 ELSE 28)
    ELSE IF m \in {4, 6, 9, 11} THEN 30 ELSE 31

\* the days from 0001-01-01 (day 1, a Monday) to the date
DayNumber(y, m, d) ==
    365 * (y - 1) + ((y - 1) \div 4) - ((y - 1) \div 100) + ((y - 1) \div 400)
        + SumOver([k \in 1..12 |-> DaysInMonth(y, k)], 1..(m - 1)) + d

\* Monday 1 .. Sunday 7
IsoWeekday(n) == ((n - 1) % 7) + 1

\* the ISO week-year and week of a date
IsoWeekOf(date) ==
    LET n == DayNumber(date.year, date.month, date.day)
        thursday == n - IsoWeekday(n) + 4
        weekYear == IF thursday < DayNumber(date.year, 1, 1) THEN date.year - 1
                    ELSE IF thursday > DayNumber(date.year, 12, 31) THEN date.year + 1
                    ELSE date.year
    IN  [weekYear |-> weekYear,
         week |-> ((thursday - DayNumber(weekYear, 1, 1)) \div 7) + 1]

\* the digits of n, padded with zeros to the width
RECURSIVE PadStart(_, _)
PadStart(digits, width) ==
    IF Len(digits) >= width THEN digits ELSE PadStart(<<"0">> \o digits, width)

\* parsedDate.format('GGGG-[W]WW')
formatWeek(parsedDate) ==
    LET isoWeek == IsoWeekOf(parsedDate)
    IN  PadStart(NatToString(isoWeek.weekYear), 4)
            \o <<"-", "W">>
            \o PadStart(NatToString(isoWeek.week), 2)

\* a.localeCompare(b) < 0 for two week keys: they differ first in a digit,
\* and the digit of a is the smaller
localeCompareLess(a, b) ==
    \E p \in 1..Len(a) :
        /\ p <= Len(b)
        /\ a[p] # b[p]
        /\ \A q \in 1..(p - 1) : a[q] = b[q]
        /\ DigitVal(a[p]) < DigitVal(b[p])

----------------------------------------------------------------------------
(* renderOutliersAndAnomalies, the weekly on-time analysis: app.js:1004-1081 *)

\* app.js:1008: no default follows the last key
dateFieldOf(row) ==
    Probe(row, <<"ShipmentDate", "shipment_date", "Date">>, Get(row, "date"))

\* app.js:1007-1026: weeklyData after the first k rows
RECURSIVE WeeklyDataUpTo(_, _)
WeeklyDataUpTo(rs, k) ==
    IF k = 0 THEN <<>>
    ELSE LET before == WeeklyDataUpTo(rs, k - 1)
             dateField == dateFieldOf(rs[k])
             parsedDate == dayjs(dateField)
         IN  IF ~Truthy(dateField) THEN before
             ELSE IF ~isValid(parsedDate) THEN before
             ELSE LET weekKey == formatWeek(parsedDate)
                      delayDays == WeeklyDelay(rs[k])
                      found == PropertyGet(before, weekKey)
                      data == IF Truthy(found) THEN found
                              ELSE [t |-> "object", total |-> 0, onTime |-> 0]
                  IN  ObjPut(before, weekKey,
                             [t |-> "object",
                              total |-> data.total + 1,
                              onTime |-> data.onTime
                                            + (IF Le(delayDays, Int_(0)) THEN 1 ELSE 0)])

weeklyData(rs) == WeeklyDataUpTo(rs, Len(rs))

\* Array.prototype.sort with (a, b) => a.week.localeCompare(b.week):
\* ascending and stable
RECURSIVE SortByWeek(_)
SortByWeek(seq) ==
    IF Len(seq) <= 1 THEN seq
    ELSE LET front == SortByWeek(SubSeq(seq, 1, Len(seq) - 1))
             last == seq[Len(seq)]
             pos == 1 + Cardinality({i \in 1..Len(front) :
                                        ~localeCompareLess(last.week, front[i].week)})
         IN  InsertAt(front, pos, last)

\* app.js:1030-1036; onTimePct is (onTime / count) * 100
weeklyStats(rs) ==
    LET data == weeklyData(rs)
    IN  SortByWeek([i \in 1..Len(data) |->
                       [week |-> data[i].key,
                        onTime |-> data[i].value.onTime,
                        count |-> data[i].value.total]])

\* a.onTimePct < b.onTimePct
PctLess(a, b) == a.onTime * b.count < b.onTime * a.count

\* app.js:1039-1041: the reduce over the first k weeks, k >= 1
RECURSIVE LowestWeekUpTo(_, _)
LowestWeekUpTo(stats, k) ==
    IF k = 1 THEN stats[1]
    ELSE LET min == LowestWeekUpTo(stats, k - 1)
         IN  IF PctLess(stats[k], min) THEN stats[k] ELSE min

lowestWeek(stats) == LowestWeekUpTo(stats, Len(stats))

\* current.onTimePct - previous.onTimePct as the fraction 100 * num / den
deltaOf(current, previous) ==
    [num |-> current.onTime * previous.count - previous.onTime * current.count,
     den |-> current.count * previous.count]

\* a < b for two such fractions
DeltaLess(a, b) == a.num * b.den < b.num * a.den

\* app.js:1044-1058: largestDrop after the loop has reached week k; null
\* when no delta so far was negative
RECURSIVE LargestDropUpTo(_, _)
LargestDropUpTo(stats, k) ==
    IF k <= 1 THEN Null
    ELSE LET largestDrop == LargestDropUpTo(stats, k - 1)
             delta == deltaOf(stats[k], stats[k - 1])
         IN  IF delta.num < 0 /\ (~Truthy(largestDrop) \/ DeltaLess(delta, largestDrop.delta))
             THEN [t |-> "object", delta |-> delta, week |-> stats[k].week,
                   onTime |-> stats[k].onTime, count |-> stats[k].count]
             ELSE largestDrop

largestDrop(stats) == LargestDropUpTo(stats, Len(stats))

\* app.js:1060-1068
weeklyInsights(stats) ==
    LET lowest == lowestWeek(stats)
        drop == largestDrop(stats)
    IN  (IF lowest.onTime < lowest.count
         THEN <<[kind |-> "lowestWeek",
                 onTimePct |-> toFixed1(lowest.onTime * 100, lowest.count),
                 week |-> lowest.week,
                 count |-> lowest.count]>>
         ELSE <<>>)
        \o
        (IF Truthy(drop)
         THEN <<[kind |-> "largestDrop",
                 points |-> toFixed1(Abs(drop.delta.num) * 100, drop.delta.den),
                 week |-> drop.week]>>
         ELSE <<>>)

\* app.js:1028-1081
weeklyCards(rs) ==
    LET data == weeklyData(rs)
        sentences == weeklyInsights(weeklyStats(rs))
    IN  IF Len(data) > 0 /\ Len(sentences) > 0
        THEN <<[kind |-> "weekly", insights |-> sentences]>>
        ELSE <<>>

\* cards of this function in the container beyond which the model adds no
\* more
MaxCards == 2

OutlierCardCount ==
    Cardinality({i \in 1..Len(insightsContainer) :
                    insightsContainer[i].kind \in {"lateShipments", "weekly"}})

\* app.js:937-1093: with no rows nothing is rendered; otherwise the new
\* cards are put before the cards the container holds
renderOutliersAndAnomalies ==
    /\ Len(rows) > 0 => OutlierCardCount < MaxCards
    /\ insightsContainer' =
          IF Len(rows) = 0 THEN insightsContainer
          ELSE lateShipmentCards(rows) \o weeklyCards(rows) \o insightsContainer
    /\ called' = called \cup {"renderOutliersAndAnomalies"}
    /\ UNCHANGED <<COST_PER_DELAY_DAY, rows, kpi, delayByCarrierChart, riskDistributionChart, ret>>
    /\ UNCHANGED <<urlCpd, costDistanceChart, modeEmissionsChart>>
    /\ UNCHANGED pageVars

\* longest row array of the top late shipments: one more than the list keeps
MaxLateRows == TopLateCount + 1

\* two rows of equal delay, a longer and a shorter delay under other keys,
\* and a row that is on time
LateRowPool ==
    {[DelayDays |-> Int_(2), ID |-> Str(<<"a">>), Carrier |-> Str(<<"A">>)],
     [DelayDays |-> Int_(2), ID |-> Str(<<"b">>), Origin |-> Str(Lyon)],
     [delay_days |-> Int_(5), id |-> Str(<<"c">>)],
     [actual_delay_days |-> Int_(3), Reference |-> Str(<<"d">>)],
     [DelayDays |-> Int_(0), ID |-> Str(<<"e">>)]}

InitLate ==
    /\ urlCpd = Null
    /\ COST_PER_DELAY_DAY = CostPerDelayDayOf(urlCpd)
    /\ rows \in SeqsUpTo(LateRowPool, MaxLateRows)
    /\ kpi = KpiUnset
    /\ delayByCarrierChart = Null
    /\ riskDistributionChart = Null
    /\ ret = NoRet
    /\ called = {}
    /\ costDistanceChart = Null
    /\ modeEmissionsChart = Null
    /\ insightsContainer = <<>>
    /\ InitPage

NextLate == renderOutliersAndAnomalies

SpecLate == InitLate /\ [][NextLate]_vars

----------------------------------------------------------------------------
(* Claims on the top late shipments (SpecLate) *)

\* the list of the first top-late card of the container, empty without one
ListedLateShipments ==
    LET cards == {k \in 1..Len(insightsContainer) :
                     insightsContainer[k].kind = "lateShipments"}
    IN  IF cards = {} THEN <<>>
        ELSE insightsContainer[CHOOSE k \in cards : \A l \in cards : k <= l].shipments

LateRows == {i \in 1..Len(rows) : IsLate(rows[i])}

\* the place of a late row when the late rows are put in order of
\* descending delayDays, rows of equal delayDays in row order
LateRank(i) ==
    1 + Cardinality({j \in LateRows :
            \/ Gt(DocumentedDelayDays(rows[j]), DocumentedDelayDays(rows[i]))
            \/ (DocumentedDelayDays(rows[j]) = DocumentedDelayDays(rows[i]) /\ j < i)})

\* C13: the top late-shipments list holds only rows with delayDays > 0, has
\* min(5, number of late rows) entries in non-increasing delayDays order, no
\* late row left out has a greater delay than a listed one, and rows of
\* equal delayDays are in their original row order: entry k is the late row
\* of rank k.
C13_TopLateShipments ==
    ("renderOutliersAndAnomalies" \in called /\ Len(rows) > 0) =>
        /\ Len(ListedLateShipments)
              = (IF Cardinality(LateRows) < 5 THEN Cardinality(LateRows) ELSE 5)
        /\ \A k \in 1..Len(ListedLateShipments) :
              \E i \in LateRows :
                  /\ LateRank(i) = k
                  /\ ListedLateShipments[k].shipmentId = OutlierShipmentId(rows[i])
                  /\ ListedLateShipments[k].delayDays = DocumentedDelayDays(rows[i])

----------------------------------------------------------------------------
(* The weekly on-time analysis on dated rows (SpecWeekly) *)

\* longest row array of the weekly analysis
MaxWeeklyRows == 4

IsoDate(y1, y2, y3, y4, m1, m2, d1, d2) ==
    Str(<<y1, y2, y3, y4, "-", m1, m2, "-", d1, d2>>)

\* rows of four ISO weeks (2024-W01, 2024-W02, 2024-W03 and, on 2024-12-30,
\* 2025-W01), on time and late, a row with a date that does not parse and a
\* row without a date
WeeklyRowPool ==
    {[ShipmentDate |-> IsoDate("2", "0", "2", "4", "0", "1", "0", "1"), DelayDays |-> Int_(0)],
     [ShipmentDate |-> IsoDate("2", "0", "2", "4", "0", "1", "0", "3"), DelayDays |-> Int_(2)],
     [shipment_date |-> IsoDate("2", "0", "2", "4", "0", "1", "0", "8"), DelayDays |-> Int_(2)],
     [Date |-> IsoDate("2", "0", "2", "4", "0", "1", "1", "4"), delay_days |-> Int_(0)],
     [date |-> IsoDate("2", "0", "2", "4", "1", "2", "3", "0"), Delay |-> Int_(1)],
     [ShipmentDate |-> IsoDate("2", "0", "2", "4", "0", "1", "1", "5"),
      actual_delay_days |-> Int_(3)],
     [ShipmentDate |-> Str(<<"n", "/", "a">>), DelayDays |-> Int_(2)],
     [DelayDays |-> Int_(2)]}

InitWeekly ==
    /\ urlCpd = Null
    /\ COST_PER_DELAY_DAY = CostPerDelayDayOf(urlCpd)
    /\ rows \in SeqsUpTo(WeeklyRowPool, MaxWeeklyRows)
    /\ kpi = KpiUnset
    /\ delayByCarrierChart = Null
    /\ riskDistributionChart = Null
    /\ ret = NoRet
    /\ called = {}
    /\ costDistanceChart = Null
    /\ modeEmissionsChart = Null
    /\ insightsContainer = <<>>
    /\ InitPage

NextWeekly == renderOutliersAndAnomalies

SpecWeekly == InitWeekly /\ [][NextWeekly]_vars

\* the shipment date of a row as the data model documents it
DocumentedShipmentDate(row) ==
    FirstPresent(row, <<"ShipmentDate", "shipment_date", "Date", "date">>, Undefined)

\* the rows with a parseable shipment date, and the week of such a row
DatedRows ==
    {i \in 1..Len(rows) :
        /\ DocumentedShipmentDate(rows[i]).t = "string"
        /\ dayjs(DocumentedShipmentDate(rows[i])).valid}

\* the week of every dated row
WeekOfRow == [i \in DatedRows |-> formatWeek(dayjs(DocumentedShipmentDate(rows[i])))]

\* the weeks, the total and the on-time count of week w, given the week wk[i]
\* of every dated row i
WeeksOf(wk) == {wk[i] : i \in DOMAIN wk}

WeekTotal(wk, w) == Cardinality({i \in DOMAIN wk : wk[i] = w})

WeekOnTime(wk, w) == Cardinality({i \in DOMAIN wk : wk[i] = w /\ ~IsLate(rows[i])})

\* week p is followed by week c when the weeks are ordered by key
Consecutive(wk, p, c) ==
    /\ localeCompareLess(p, c)
    /\ ~\E w \in WeeksOf(wk) : localeCompareLess(p, w) /\ localeCompareLess(w, c)

\* the on-time percentage of c minus that of p, times the two totals / 100
WeekDelta(wk, p, c) ==
    WeekOnTime(wk, c) * WeekTotal(wk, p) - WeekOnTime(wk, p) * WeekTotal(wk, c)

\* the sentences of the first weekly card of the container
WeeklySentences ==
    LET cards == {k \in 1..Len(insightsContainer) : insightsContainer[k].kind = "weekly"}
    IN  IF cards = {} THEN <<>>
        ELSE insightsContainer[CHOOSE k \in cards : \A l \in cards : k <= l].insights

SentencesOfKind(kind) ==
    {WeeklySentences[k] : k \in {l \in 1..Len(WeeklySentences) : WeeklySentences[l].kind = kind}}

\* C14: only rows with a parseable shipment date are counted, the week
\* totals adding up to their number; the reported lowest week has an on-time
\* percentage <= that of every week, and the reported largest drop is the
\* most negative difference between consecutive weeks in key order, none
\* being reported when no difference is negative.
C14_WeeklyOnTime ==
    ("renderOutliersAndAnomalies" \in called /\ Len(rows) > 0) =>
        LET wk == WeekOfRow
            Weeks == WeeksOf(wk)
            data == weeklyData(rows)
        IN
        /\ {data[k].key : k \in 1..Len(data)} = Weeks
        /\ \A k \in 1..Len(data) : data[k].value.total = WeekTotal(wk, data[k].key)
        /\ SumOver([k \in 1..Len(data) |-> data[k].value.total], 1..Len(data))
              = Cardinality(DatedRows)
        /\ \A sentence \in SentencesOfKind("lowestWeek") :
              /\ sentence.week \in Weeks
              /\ sentence.count = WeekTotal(wk, sentence.week)
              /\ sentence.onTimePct
                    = toFixed1(WeekOnTime(wk, sentence.week) * 100,
                               WeekTotal(wk, sentence.week))
              /\ \A w \in Weeks :
                    WeekOnTime(wk, sentence.week) * WeekTotal(wk, w)
                        <= WeekOnTime(wk, w) * WeekTotal(wk, sentence.week)
        /\ \A sentence \in SentencesOfKind("largestDrop") :
              \E p \in Weeks :
                  /\ Consecutive(wk, p, sentence.week)
                  /\ WeekDelta(wk, p, sentence.week) < 0
                  /\ sentence.points
                        = toFixed1(-WeekDelta(wk, p, sentence.week) * 100,
                                   WeekTotal(wk, p) * WeekTotal(wk, sentence.week))
                  /\ \A q, c \in Weeks :
                        Consecutive(wk, q, c) =>
                            WeekDelta(wk, p, sentence.week) * WeekTotal(wk, q) * WeekTotal(wk, c)
                                <= WeekDelta(wk, q, c) * WeekTotal(wk, p)
                                       * WeekTotal(wk, sentence.week)
        /\ SentencesOfKind("largestDrop") = {}
              <=> ~\E q, c \in Weeks : Consecutive(wk, q, c) /\ WeekDelta(wk, q, c) < 0

----------------------------------------------------------------------------
(* renderInsights on rows with carriers, delays, risk values and           *)
(* distance/cost points (SpecInsights)                                     *)

\* longest row array of the insights
MaxInsightRows == 3

\* rows that carry each field under one key: late and on-time rows of three
\* carriers (one of them named like an inherited property), risk values of
\* every level and one that is no level, points that correlate strongly,
\* moderately and not at all, and a row without a cost
InsightRowPool ==
    {[carrier_name |-> Str(<<"A">>), actual_delay_days |-> Int_(2),
      risk_level |-> Str(<<"h", "i", "g", "h">>),
      route_distance_km |-> Fix(1), cost_usd |-> Fix(1), emissions_kg |-> Int_(1)],
     [carrier_name |-> Str(<<"A">>), actual_delay_days |-> Int_(4),
      risk_level |-> Dec(0, 90),
      route_distance_km |-> Fix(2), cost_usd |-> Fix(2), emissions_kg |-> Int_(1)],
     [Carrier |-> Str(<<"B">>), DelayDays |-> Int_(5),
      risk_level |-> Str(<<"l", "o", "w">>),
      route_distance_km |-> Fix(3), cost_usd |-> Fix(1), emissions_kg |-> Int_(2),
      origin_city |-> Str(Lyon), destination_city |-> Str(Oslo)],
     [Carrier |-> Str(<<"B">>), DelayDays |-> Int_(0),
      RiskLevel |-> Dec(0, 80),
      DistanceKm |-> Fix(3), CostUSD |-> Fix(3), emissions_kg |-> Int_(1)],
     [carrier |-> Str(<<"B">>), delay_days |-> Int_(5)],
     [risk |-> Str(<<"p", "e", "n", "d", "i", "n", "g">>)],
     [distance_km |-> Fix(2), cost |-> Fix(3), emissions_kg |-> Int_(1)],
     [carrier_name |-> Str(constructor), actual_delay_days |-> Int_(5)],
     [route_distance_km |-> Fix(1)]}

InitInsights ==
    /\ urlCpd = Null
    /\ COST_PER_DELAY_DAY = CostPerDelayDayOf(urlCpd)
    /\ rows \in SeqsUpTo(InsightRowPool, MaxInsightRows)
    /\ kpi = KpiUnset
    /\ delayByCarrierChart = Null
    /\ riskDistributionChart = Null
    /\ ret = NoRet
    /\ called = {}
    /\ costDistanceChart = Null
    /\ modeEmissionsChart = Null
    /\ insightsContainer = <<>>
    /\ InitPage

NextInsights == renderInsights

SpecInsights == InitInsights /\ [][NextInsights]_vars

----------------------------------------------------------------------------
(* Claims on the insight sentences (SpecInsights) *)

InsightsRendered == "renderInsights" \in called /\ Len(rows) > 0

InsightKinds == [i \in 1..Len(insightsContainer) |-> insightsContainer[i].kind]

InsightsOfKind(kind) ==
    {insightsContainer[i] : i \in {j \in 1..Len(insightsContainer) : InsightKinds[j] = kind}}

\* the place of a sentence in the order savings, worst-carrier, on-time,
\* risk, correlation, top-route
KindRank(kind) ==
    CASE kind = "savings" -> 1
      [] kind = "worstCarrier" -> 2
      [] kind = "onTime" -> 3
      [] kind = "risk" -> 4
      [] kind = "correlation" -> 5
      [] kind = "topRoute" -> 6
      [] OTHER -> 0

\* the risk value of a row as the data model documents it
DocumentedRisk(row) ==
    FirstPresent(row, <<"risk_level", "RiskLevel", "risk", "ai_risk_score">>, Str(Unknown))

\* a risk value classified High or Critical: by its keyword, else by the
\* thresholds when it is a number or reads as one
IsHighOrCritical(v) ==
    IF v.t = "string" /\ KeywordLevels(v.s) # {}
    THEN KeywordLevels(v.s) \subseteq {High, Critical}
    ELSE /\ ~Number(v).nan
         /\ ThresholdLevel(Number(v)) \in {High, Critical}

HighOrCriticalRows == {i \in 1..Len(rows) : IsHighOrCritical(DocumentedRisk(rows[i]))}

\* C15: for a non-empty row set the sentences come in the relative order
\* savings, worst-carrier, on-time, risk, correlation, top-route; the
\* savings, on-time and top-route sentences are always present, and the risk
\* sentence is present exactly when a row is classified High or Critical.
C15_InsightOrderAndPresence ==
    InsightsRendered =>
        /\ \A i, j \in 1..Len(insightsContainer) :
              i < j => 0 < KindRank(InsightKinds[i])
                       /\ KindRank(InsightKinds[i]) < KindRank(InsightKinds[j])
        /\ \A kind \in {"savings", "onTime", "topRoute"} : InsightsOfKind(kind) # {}
        /\ InsightsOfKind("risk") # {} <=> Cardinality(HighOrCriticalRows) > 0

\* C15 witness: all six sentences are rendered, one row being Critical by its
\* score.
C15_Witness ==
    /\ InsightsRendered
    /\ Len(insightsContainer) = 6
    /\ \E i \in HighOrCriticalRows : DocumentedRisk(rows[i]) = Dec(0, 90)

\* the late rows of a carrier, their number and the sum of their delays
LateRowsOfCarrier(c) ==
    {i \in 1..Len(rows) : DocumentedCarrier(rows[i]) = c /\ IsLate(rows[i])}

LateCarriers == {DocumentedCarrier(rows[i]) : i \in {j \in 1..Len(rows) : IsLate(rows[j])}}

LateDelaySum(c) ==
    SumOver([i \in 1..Len(rows) |-> DocumentedDelayDays(rows[i]).v], LateRowsOfCarrier(c))

\* no carrier has a higher mean delay over its late rows than c
HasHighestMeanDelay(c) ==
    \A d \in LateCarriers :
        LateDelaySum(c) * Cardinality(LateRowsOfCarrier(d))
            >= LateDelaySum(d) * Cardinality(LateRowsOfCarrier(c))

\* C16: the worst-carrier sentence names a carrier with the highest mean
\* delay over its late rows (delayDays > 0), with that mean and the number of
\* its late rows, and it is emitted exactly when that carrier has at least 2
\* late rows.
C16_WorstCarrier ==
    InsightsRendered =>
        /\ \A sentence \in InsightsOfKind("worstCarrier") :
              /\ sentence.carrier \in LateCarriers
              /\ HasHighestMeanDelay(sentence.carrier)
              /\ sentence.count = Cardinality(LateRowsOfCarrier(sentence.carrier))
              /\ sentence.count >= 2
              /\ sentence.avgDelay
                    = toFixed1(LateDelaySum(sentence.carrier), Scale * sentence.count)
        /\ (/\ LateCarriers # {}
            /\ \A c \in LateCarriers :
                  HasHighestMeanDelay(c) => Cardinality(LateRowsOfCarrier(c)) >= 2)
              => InsightsOfKind("worstCarrier") # {}

\* the cost of a row as the data model documents it
DocumentedCostUsd(row) ==
    num(FirstPresent(row, <<"cost_usd", "CostUSD", "cost">>, Int_(0)))

\* the rows with distance > 0 and cost > 0
PointRows ==
    {i \in 1..Len(rows) :
        /\ Gt(DocumentedDistanceKm(rows[i]), Int_(0))
        /\ Gt(DocumentedCostUsd(rows[i]), Int_(0))}

PointPairs == {p \in PointRows \X PointRows : p[1] < p[2]}

\* sums over the pairs of points of the products of their differences; r is
\* CoSum / sqrt(DistanceSum * CostSum)
CoSum ==
    SumOver([p \in PointPairs |->
                (DocumentedDistanceKm(rows[p[1]]).v - DocumentedDistanceKm(rows[p[2]]).v)
                    * (DocumentedCostUsd(rows[p[1]]).v - DocumentedCostUsd(rows[p[2]]).v)],
            PointPairs)

DistanceSum ==
    SumOver([p \in PointPairs |->
                (DocumentedDistanceKm(rows[p[1]]).v - DocumentedDistanceKm(rows[p[2]]).v)
                    * (DocumentedDistanceKm(rows[p[1]]).v - DocumentedDistanceKm(rows[p[2]]).v)],
            PointPairs)

CostSum ==
    SumOver([p \in PointPairs |->
                (DocumentedCostUsd(rows[p[1]]).v - DocumentedCostUsd(rows[p[2]]).v)
                    * (DocumentedCostUsd(rows[p[1]]).v - DocumentedCostUsd(rows[p[2]]).v)],
            PointPairs)

\* |r| >= p / q, r being 0 when all distances or all costs are equal
AbsRAtLeast(p, q) ==
    /\ DistanceSum * CostSum > 0
    /\ q * q * CoSum * CoSum >= p * p * DistanceSum * CostSum

\* C17: the correlation sentence is emitted exactly when there are at least
\* 3 points with distance > 0 and cost > 0 and |r| >= 0.3; it says "strong"
\* exactly when |r| >= 0.7 and "moderate" otherwise, "positive" exactly when
\* r > 0 and "negative" otherwise.
C17_CorrelationSentence ==
    InsightsRendered =>
        /\ InsightsOfKind("correlation") # {}
              <=> Cardinality(PointRows) >= 3 /\ AbsRAtLeast(3, 10)
        /\ \A sentence \in InsightsOfKind("correlation") :
              /\ sentence.strength = (IF AbsRAtLeast(7, 10) THEN "strong" ELSE "moderate")
              /\ sentence.direction = (IF CoSum > 0 THEN "positive" ELSE "negative")

\* C17 witness: a moderate negative correlation is reported.
C17_Witness ==
    /\ InsightsRendered
    /\ \E sentence \in InsightsOfKind("correlation") :
          sentence.strength = "moderate" /\ sentence.direction = "negative"

----------------------------------------------------------------------------
(* createCostDistanceChart: app.js:350-474 *)

\* app.js:358
ScatterDistanceKm(row) ==
    num(Probe(row, <<"route_distance_km", "DistanceKm", "distance_km">>, Int_(0)))

\* app.js:359
ScatterCostUSD(row) ==
    num(Probe(row, <<"cost_usd", "CostUSD", "cost">>, Int_(0)))

\* app.js:360
ScatterShipmentId(row) ==
    Probe(row, <<"shipment_id", "ShipmentId", "shipment">>, Str(Unknown))

\* app.js:357-367
scatterData(rs) ==
    SelectSeq([i \in 1..Len(rs) |->
                  [x |-> ScatterDistanceKm(rs[i]),
                   y |-> ScatterCostUSD(rs[i]),
                   shipmentId |-> ScatterShipmentId(rs[i])]],
              LAMBDA point : Gt(point.x, Int_(0)) /\ Gt(point.y, Int_(0)))

\* app.js:350-474: with no rows or no valid point the handle is left alone;
\* otherwise the old chart is destroyed and a new one plots the points
createCostDistanceChart ==
    /\ costDistanceChart' =
          LET points == scatterData(rows)
          IN  IF Len(rows) = 0 \/ Len(points) = 0 THEN costDistanceChart
              ELSE IF "chart-cost-distance" \notin containers THEN Null
              ELSE [t |-> "object", data |-> points]
    /\ called' = called \cup {"createCostDistanceChart"}
    /\ UNCHANGED <<COST_PER_DELAY_DAY, rows, kpi, delayByCarrierChart, riskDistributionChart, ret>>
    /\ UNCHANGED <<urlCpd, modeEmissionsChart, insightsContainer>>
    /\ Rebuild("chart-cost-distance", costDistanceChart, Len(rows) = 0 \/ Len(scatterData(rows)) = 0)

\* longest row array of the scatter chart
MaxScatterRows == 2

\* distances a key of a row carries
ScatterCoords == {Fix(1), Fix(2)}

\* the row of the given fields that are not left out
RowOf(fields) ==
    LET present == {k \in DOMAIN fields : fields[k] # Undefined}
    IN  [k \in present |-> fields[k]]

\* rows with a cost and every combination of the three distance keys, each
\* left out or carrying one of two distances
ScatterRowPool ==
    {RowOf([route_distance_km |-> a, DistanceKm |-> b, distance_km |-> c,
            cost_usd |-> Fix(1)]) : a, b, c \in ScatterCoords \cup {Undefined}}
        \cup {[route_distance_km |-> Fix(1)]}

InitScatter ==
    /\ urlCpd = Null
    /\ COST_PER_DELAY_DAY = CostPerDelayDayOf(urlCpd)
    /\ rows \in SeqsUpTo(ScatterRowPool, MaxScatterRows)
    /\ kpi = KpiUnset
    /\ delayByCarrierChart = Null
    /\ riskDistributionChart = Null
    /\ ret = NoRet
    /\ called = {}
    /\ costDistanceChart = Null
    /\ modeEmissionsChart = Null
    /\ insightsContainer = <<>>
    /\ InitPage

NextScatter == createCostDistanceChart \/ CallCalculatePearsonCorrelation

SpecScatter == InitScatter /\ [][NextScatter]_vars

----------------------------------------------------------------------------
(* Claim on the points of the chart and of the correlation (SpecScatter) *)

\* the points the chart plots, none when no chart was created
PlottedPoints ==
    IF costDistanceChart = Null THEN <<>>
    ELSE [i \in 1..Len(costDistanceChart.data) |->
             [distance |-> costDistanceChart.data[i].x, cost |-> costDistanceChart.data[i].y]]

\* the rows with resolved distance > 0 and resolved cost > 0, in row order
DocumentedPoints ==
    SelectSeq([i \in 1..Len(rows) |->
                  [distance |-> DocumentedDistanceKm(rows[i]),
                   cost |-> DocumentedCostUsd(rows[i])]],
              LAMBDA point : Gt(point.distance, Int_(0)) /\ Gt(point.cost, Int_(0)))

\* C18: the points handed to the correlation are the points the chart plots
\* for the same rows: the rows with resolved distance > 0 and resolved cost
\* > 0, with the same distances and costs, whatever distance keys a row
\* carries.
C18_SamePoints ==
    ("createCostDistanceChart" \in called /\ ret.fn = "calculatePearsonCorrelation") =>
        /\ ret.arg = PlottedPoints
        /\ ret.arg = DocumentedPoints

----------------------------------------------------------------------------
(* loadExcel: app.js:1096-1217.  A load reads the row array of the sheet   *)
(* and hands it to the aggregate functions in a fixed order; the handles    *)
(* and the rendered values outlive the load, so a later load of a sheet     *)
(* without rows meets what an earlier load left.  (SpecReload)              *)

\* the calls of app.js:1158-1184 in their order
LoadOrder ==
    <<"updateKPIs", "createDelayByCarrierChart", "createRiskDistributionChart",
      "createCostDistanceChart", "createModeEmissionsChart", "renderInsights",
      "renderOutliersAndAnomalies">>

\* the number of calls the current load has made
LoadPosition == Cardinality(called \cap {LoadOrder[i] : i \in 1..Len(LoadOrder)})

IsNextCall(name) ==
    /\ loadState = "decoded"
    /\ LoadPosition < Len(LoadOrder)
    /\ LoadOrder[LoadPosition + 1] = name

\* longest row array of a load
MaxReloadRows == 1

ReloadRowPool ==
    {[carrier_name |-> Str(<<"A">>), actual_delay_days |-> Int_(2),
      risk_level |-> Str(<<"h", "i", "g", "h">>),
      route_distance_km |-> Fix(1), cost_usd |-> Fix(1), emissions_kg |-> Int_(1),
      ShipmentDate |-> IsoDate("2", "0", "2", "4", "0", "1", "0", "1")],
     [Carrier |-> Str(<<"B">>), DelayDays |-> Int_(0), RiskLevel |-> Dec(0, 20),
      DistanceKm |-> Fix(2), CostUSD |-> Fix(3), EmissionsKg |-> Int_(2),
      transport_mode |-> Str(Air)],
     [carrier |-> Str(<<"B">>)]}

\* the row arrays of a sheet: short ones, and one of MinShipments equal rows
\* for each row, which the carrier chart needs to rank a carrier
ReloadSheets ==
    SeqsUpTo(ReloadRowPool, MaxReloadRows)
        \cup {[i \in 1..MinShipments |-> row] : row \in ReloadRowPool}

\* app.js:1124: the row array of the first sheet of a load that succeeds,
\* once the calls of the load before have been made
sheet_to_json ==
    /\ LoadPosition = Len(LoadOrder)
    /\ rows' \in ReloadSheets
    /\ called' = {}
    /\ UNCHANGED <<COST_PER_DELAY_DAY, kpi, delayByCarrierChart, riskDistributionChart, ret>>
    /\ UNCHANGED <<urlCpd, costDistanceChart, modeEmissionsChart, insightsContainer>>
    /\ UNCHANGED pageVars

\* app.js:1158
LoadUpdateKPIs == IsNextCall("updateKPIs") /\ updateKPIs

\* app.js:1161
LoadCreateDelayByCarrierChart ==
    IsNextCall("createDelayByCarrierChart") /\ createDelayByCarrierChart

\* app.js:1164
LoadCreateRiskDistributionChart ==
    IsNextCall("createRiskDistributionChart") /\ createRiskDistributionChart

\* app.js:1167
LoadCreateCostDistanceChart ==
    IsNextCall("createCostDistanceChart") /\ createCostDistanceChart

\* app.js:1173
LoadCreateModeEmissionsChart ==
    IsNextCall("createModeEmissionsChart") /\ createModeEmissionsChart

\* app.js:1181
LoadRenderInsights == IsNextCall("renderInsights") /\ renderInsights

\* app.js:1184
LoadRenderOutliersAndAnomalies ==
    IsNextCall("renderOutliersAndAnomalies") /\ renderOutliersAndAnomalies

\* computeSavingsPotential called on its own with the rows of the load
LoadComputeSavingsPotential ==
    /\ "computeSavingsPotential" \notin called
    /\ CallComputeSavingsPotential

InitReload ==
    /\ urlCpd = Null
    /\ COST_PER_DELAY_DAY = CostPerDelayDayOf(urlCpd)
    /\ rows \in ReloadSheets
    /\ kpi = KpiUnset
    /\ delayByCarrierChart = Null
    /\ riskDistributionChart = Null
    /\ ret = NoRet
    /\ called = {}
    /\ costDistanceChart = Null
    /\ modeEmissionsChart = Null
    /\ insightsContainer = <<>>
    /\ fileHint = "success"
    /\ loadState = "decoded"
    /\ InitTour
    /\ InitCharts

NextReload ==
    \/ sheet_to_json
    \/ LoadUpdateKPIs
    \/ LoadCreateDelayByCarrierChart
    \/ LoadCreateRiskDistributionChart
    \/ LoadCreateCostDistanceChart
    \/ LoadCreateModeEmissionsChart
    \/ LoadRenderInsights
    \/ LoadRenderOutliersAndAnomalies
    \/ LoadComputeSavingsPotential

SpecReload == InitReload /\ [][NextReload]_vars

----------------------------------------------------------------------------
(* Claim on the aggregate functions called without rows (SpecReload) *)

\* what a function called without rows may return
EmptyRowsReturns ==
    {[fn |-> "computeSavingsPotential", arg |-> Undefined, val |-> 0],
     [fn |-> "createModeEmissionsChart", arg |-> Undefined, val |-> Undefined]}

\* C19: an aggregate function called with an empty row array returns
\* without a ratio over a zero denominator: computeSavingsPotential returns
\* 0, and updateKPIs, the four chart builders, renderInsights and
\* renderOutliersAndAnomalies return nothing and leave the displayed KPI
\* values, the four chart handles and the rendered cards as they were.
C19_EmptyRows ==
    [][(Len(rows) = 0 /\ rows' = rows) =>
          /\ kpi' = kpi
          /\ delayByCarrierChart' = delayByCarrierChart
          /\ riskDistributionChart' = riskDistributionChart
          /\ costDistanceChart' = costDistanceChart
          /\ modeEmissionsChart' = modeEmissionsChart
          /\ insightsContainer' = insightsContainer
          /\ ret' # ret => ret' \in EmptyRowsReturns]_vars

\* C19 witness: a load without rows has made all its calls, and
\* computeSavingsPotential has returned 0, while the KPI values, the four
\* charts and the cards of the load before are in place.
C19_Witness ==
    /\ Len(rows) = 0
    /\ LoadPosition = Len(LoadOrder)
    /\ ret = [fn |-> "computeSavingsPotential", arg |-> Undefined, val |-> 0]
    /\ kpi # KpiUnset
    /\ delayByCarrierChart # Null
    /\ riskDistributionChart # Null
    /\ costDistanceChart # Null
    /\ modeEmissionsChart # Null
    /\ Len(insightsContainer) > 0

----------------------------------------------------------------------------
(* Claim on the cost-per-delay-day constant (SpecKPI) *)

\* C20: the constant read at startup is 120 when the cpd parameter is absent
\* or does not parse to a finite number, and is the parsed number whenever
\* the parameter parses to a finite number.
C20_CostPerDelayDay ==
    COST_PER_DELAY_DAY =
        IF urlCpd = Null \/ isNaN(parseFloat(urlCpd.s)) THEN Int_(120)
        ELSE parseFloat(urlCpd.s)

----------------------------------------------------------------------------
(* Column names that differ from the names the code reads in case or in    *)
(* underscores (SpecLooseKeys).  createDataPreviewTable matches them:       *)
(* app.js:519-522; the aggregates read properties by their exact names.     *)

\* the characters of the column names of the rows below
KeyChars ==
    [route_distance_km |-> <<"r", "o", "u", "t", "e", "_", "d", "i", "s", "t", "a", "n", "c", "e", "_", "k", "m">>,
     DistanceKm |-> <<"D", "i", "s", "t", "a", "n", "c", "e", "K", "m">>,
     distance_km |-> <<"d", "i", "s", "t", "a", "n", "c", "e", "_", "k", "m">>,
     cost_usd |-> <<"c", "o", "s", "t", "_", "u", "s", "d">>,
     CostUSD |-> <<"C", "o", "s", "t", "U", "S", "D">>,
     cost |-> <<"c", "o", "s", "t">>,
     shipment_id |-> <<"s", "h", "i", "p", "m", "e", "n", "t", "_", "i", "d">>,
     ShipmentId |-> <<"S", "h", "i", "p", "m", "e", "n", "t", "I", "d">>,
     shipment |-> <<"s", "h", "i", "p", "m", "e", "n", "t">>,
     RouteDistanceKm |-> <<"R", "o", "u", "t", "e", "D", "i", "s", "t", "a", "n", "c", "e", "K", "m">>,
     Route_Distance_Km |-> <<"R", "o", "u", "t", "e", "_", "D", "i", "s", "t", "a", "n", "c", "e", "_", "K", "m">>,
     Cost_USD |-> <<"C", "o", "s", "t", "_", "U", "S", "D">>,
     distancekm |-> <<"d", "i", "s", "t", "a", "n", "c", "e", "k", "m">>]

\* key.replace(/_/g, '')
replaceUnderscores(s) == SelectSeq(s, LAMBDA c : c # "_")

\* app.js:520-521
keyMatches(key, col) ==
    \/ toLowerCase(KeyChars[key]) = toLowerCase(KeyChars[col])
    \/ toLowerCase(replaceUnderscores(KeyChars[key]))
          = toLowerCase(replaceUnderscores(KeyChars[col]))

\* longest row array of the rows with such names
MaxLooseRows == 3

\* a distance and a cost under exact names, under names that differ in case,
\* in underscores or in both, and a row without a distance
LooseRowPool ==
    {[route_distance_km |-> Fix(2), cost_usd |-> Fix(1)],
     [RouteDistanceKm |-> Fix(2), cost_usd |-> Fix(1)],
     [Route_Distance_Km |-> Fix(1), Cost_USD |-> Fix(2)],
     [DistanceKm |-> Fix(1), CostUSD |-> Fix(1)],
     [distancekm |-> Fix(2), cost |-> Fix(2)],
     [cost_usd |-> Fix(1)]}

InitLooseKeys ==
    /\ urlCpd = Null
    /\ COST_PER_DELAY_DAY = CostPerDelayDayOf(urlCpd)
    /\ rows \in SeqsUpTo(LooseRowPool, MaxLooseRows)
    /\ kpi = KpiUnset
    /\ delayByCarrierChart = Null
    /\ riskDistributionChart = Null
    /\ ret = NoRet
    /\ called = {}
    /\ costDistanceChart = Null
    /\ modeEmissionsChart = Null
    /\ insightsContainer = <<>>
    /\ InitPage

NextLooseKeys == createCostDistanceChart

SpecLooseKeys == InitLooseKeys /\ [][NextLooseKeys]_vars

----------------------------------------------------------------------------
(* Claim on the matching of column names (SpecLooseKeys) *)

\* the names the chart resolves its fields from, in the documented order
ScatterCandidates ==
    <<"route_distance_km", "DistanceKm", "distance_km", "cost_usd", "CostUSD", "cost",
      "shipment_id", "ShipmentId", "shipment">>

IsCandidate(key) == \E i \in 1..Len(ScatterCandidates) : ScatterCandidates[i] = key

\* the candidate name a key is accepted as: itself when it is one, else the
\* first candidate it matches, else the key unchanged
AcceptedAs(key) ==
    IF IsCandidate(key) THEN key
    ELSE LET hits == {i \in 1..Len(ScatterCandidates) : keyMatches(key, ScatterCandidates[i])}
         IN  IF hits = {} THEN key
             ELSE ScatterCandidates[CHOOSE i \in hits : \A j \in hits : i <= j]

\* the row with every key under the name it is accepted as
ExactlyNamed(row) ==
    [name \in {AcceptedAs(key) : key \in DOMAIN row} |->
        row[CHOOSE key \in DOMAIN row : AcceptedAs(key) = name]]

ExactlyNamedRows == [i \in 1..Len(rows) |-> ExactlyNamed(rows[i])]

\* C21: a row key that equals a candidate name case-insensitively, or does
\* so once underscores are stripped, is accepted as that field: the chart
\* plots what it would plot had the rows carried the exactly-named keys.
C21_LooseKeysAccepted ==
    "createCostDistanceChart" \in called =>
        costDistanceChart =
            IF Len(scatterData(ExactlyNamedRows)) = 0 THEN Null
            ELSE [t |-> "object", data |-> scatterData(ExactlyNamedRows)]

----------------------------------------------------------------------------
(* The carrier of a row in the carrier chart, the worst-carrier sentence    *)
(* and the top late shipments (SpecCarrierKeys)                             *)

\* longest row array of mixed rows
MaxCarrierKeyRows == 2

\* late rows of two carriers, named under carrier_name or under Carrier
CarrierKeyRowPool ==
    {[carrier_name |-> Str(c), DelayDays |-> Int_(d)] : c \in {<<"A">>, <<"B">>}, d \in {2, 4}}
        \cup {[Carrier |-> Str(c), DelayDays |-> Int_(d)] : c \in {<<"A">>, <<"B">>}, d \in {2, 4}}

\* short arrays of mixed rows, and arrays of MinShipments equal rows, which
\* the carrier chart needs to rank a carrier
CarrierKeySheets ==
    SeqsUpTo(CarrierKeyRowPool, MaxCarrierKeyRows)
        \cup {[i \in 1..MinShipments |-> row] : row \in CarrierKeyRowPool}

InitCarrierKeys ==
    /\ urlCpd = Null
    /\ COST_PER_DELAY_DAY = CostPerDelayDayOf(urlCpd)
    /\ rows \in CarrierKeySheets
    /\ kpi = KpiUnset
    /\ delayByCarrierChart = Null
    /\ riskDistributionChart = Null
    /\ ret = NoRet
    /\ called = {}
    /\ costDistanceChart = Null
    /\ modeEmissionsChart = Null
    /\ insightsContainer = <<>>
    /\ InitPage

NextCarrierKeys ==
    \/ createDelayByCarrierChart
    \/ renderInsights
    \/ renderOutliersAndAnomalies

SpecCarrierKeys == InitCarrierKeys /\ [][NextCarrierKeys]_vars

----------------------------------------------------------------------------
(* Claim on the carrier keys (SpecCarrierKeys) *)

\* the row with its carrier under the key Carrier
UnderCarrier(row) ==
    IF "carrier_name" \in DOMAIN row /\ "Carrier" \notin DOMAIN row
    THEN [key \in (DOMAIN row \ {"carrier_name"}) \cup {"Carrier"} |->
             IF key = "Carrier" THEN row["carrier_name"] ELSE row[key]]
    ELSE row

RowsUnderCarrier == [i \in 1..Len(rows) |-> UnderCarrier(rows[i])]

\* C22: a row whose only carrier key is carrier_name with value X gives the
\* carrier chart, the worst-carrier sentence and the top late shipments what
\* the same row with X under the key Carrier gives them, and no place shows
\* "Unknown" for it.
C22_CarrierKeysAgree ==
    /\ CarrierCharted =>
          delayByCarrierChart.labels
              = [i \in 1..Len(filteredCarriers(RowsUnderCarrier)) |->
                    filteredCarriers(RowsUnderCarrier)[i].name]
    /\ \A sentence \in InsightsOfKind("worstCarrier") :
          <<sentence>> = worstCarrierInsights(RowsUnderCarrier)
    /\ \A k \in 1..Len(insightsContainer) :
          insightsContainer[k].kind = "lateShipments" =>
              /\ insightsContainer[k].shipments = topLateShipments(RowsUnderCarrier)
              /\ \A j \in 1..Len(insightsContainer[k].shipments) :
                    insightsContainer[k].shipments[j].carrier # Str(Unknown)

----------------------------------------------------------------------------
(* loadExcel with the fetch and the decoding that may fail:                 *)
(* app.js:1096-1217 (SpecLoad)                                              *)

\* the variables a step of loadExcel outside the aggregate functions leaves
\* alone
aggregateVars ==
    <<COST_PER_DELAY_DAY, kpi, delayByCarrierChart, riskDistributionChart, urlCpd,
      costDistanceChart, modeEmissionsChart, insightsContainer>>

\* what loadExcel returns: null, or the row array
ReturnsNull == [fn |-> "loadExcel", arg |-> Undefined, val |-> Null]
ReturnsRows(rs) == [fn |-> "loadExcel", arg |-> Undefined, val |-> [t |-> "object", rows |-> rs]]

\* app.js:1096-1111: the spinner is shown and the file is requested
loadExcel ==
    /\ loadState \in {"idle", "done"}
    /\ fileHint' = "loading"
    /\ loadState' = "fetching"
    /\ called' = {}
    /\ ret' = NoRet
    /\ UNCHANGED rows
    /\ UNCHANGED aggregateVars
    /\ UNCHANGED <<tourVars, chartVars>>

\* app.js:1111-1116: the response arrives with an OK status
fetchResolves ==
    /\ loadState = "fetching"
    /\ loadState' = "decoding"
    /\ UNCHANGED <<fileHint, rows, called, ret>>
    /\ UNCHANGED aggregateVars
    /\ UNCHANGED <<tourVars, chartVars>>

catchErrorSilently ==
    /\ loadState \in {"fetching", "decoding"}
    /\ loadState' = "done"
    /\ ret' = ReturnsNull
    /\ UNCHANGED <<fileHint, rows, called>>
    /\ UNCHANGED aggregateVars
    /\ UNCHANGED <<tourVars, chartVars>>

\* app.js:1197-1216: the catch block, entered when fetch rejects or the
\* status is not OK (app.js:1111-1114) or when reading the response or the
\* workbook throws (app.js:1116-1124): the error is shown and null returned
catchError ==
    /\ loadState \in {"fetching", "decoding"}
    /\ fileHint' = "error"
    /\ loadState' = "done"
    /\ ret' = ReturnsNull
    /\ UNCHANGED <<rows, called>>
    /\ UNCHANGED aggregateVars
    /\ UNCHANGED <<tourVars, chartVars>>

\* app.js:1116-1152: the workbook is read, the first sheet becomes the row
\* array and the success message is shown
decodeSucceeds ==
    /\ loadState = "decoding"
    /\ rows' \in ReloadSheets
    /\ fileHint' = "success"
    /\ loadState' = "decoded"
    /\ UNCHANGED <<called, ret>>
    /\ UNCHANGED aggregateVars
    /\ UNCHANGED <<tourVars, chartVars>>

\* app.js:1196: the rows are returned once the calls have been made
loadExcelReturns ==
    /\ loadState = "decoded"
    /\ LoadPosition = Len(LoadOrder)
    /\ loadState' = "done"
    /\ ret' = ReturnsRows(rows)
    /\ UNCHANGED <<fileHint, rows, called>>
    /\ UNCHANGED aggregateVars
    /\ UNCHANGED <<tourVars, chartVars>>

InitLoad ==
    /\ urlCpd = Null
    /\ COST_PER_DELAY_DAY = CostPerDelayDayOf(urlCpd)
    /\ rows = <<>>
    /\ kpi = KpiUnset
    /\ delayByCarrierChart = Null
    /\ riskDistributionChart = Null
    /\ ret = NoRet
    /\ called = {}
    /\ costDistanceChart = Null
    /\ modeEmissionsChart = Null
    /\ insightsContainer = <<>>
    /\ InitPage

NextLoad ==
    \/ loadExcel
    \/ fetchResolves
    \/ catchError
    \/ decodeSucceeds
    \/ LoadUpdateKPIs
    \/ LoadCreateDelayByCarrierChart
    \/ LoadCreateRiskDistributionChart
    \/ LoadCreateCostDistanceChart
    \/ LoadCreateModeEmissionsChart
    \/ LoadRenderInsights
    \/ LoadRenderOutliersAndAnomalies
    \/ loadExcelReturns

SpecLoad == InitLoad /\ [][NextLoad]_vars

----------------------------------------------------------------------------
(* Claim on the failure of a load (SpecLoad) *)

----------------------------------------------------------------------------
(* Claim on what remains displayed after a later load (SpecLoad) *)

\* a load has decoded its rows, made all its calls and returned the rows
LoadCompleted == loadState = "done" /\ ret = ReturnsRows(rows)

\* C24: once a successful load has completed, the displayed KPI values and
\* the four live charts are those computed from the rows of that load: a
\* KPI element shows its initial text or the value of these rows, and a
\* chart handle is empty or holds the chart of these rows, also when the
\* rows are empty, have no carrier with MinShipments rows or have no valid
\* cost/distance point.
C24_FreshAfterLoad ==
    LoadCompleted =>
        /\ kpi # KpiUnset =>
              Len(rows) > 0 /\ kpi = KpiOf(rows, COST_PER_DELAY_DAY)
        /\ delayByCarrierChart # Null =>
              /\ Len(filteredCarriers(rows)) > 0
              /\ delayByCarrierChart.labels =
                    [i \in 1..Len(filteredCarriers(rows)) |-> filteredCarriers(rows)[i].name]
        /\ riskDistributionChart # Null =>
              /\ Len(rows) > 0
              /\ riskDistributionChart.labels = ObjKeys(riskCounts(rows))
              /\ riskDistributionChart.data = ObjValues(riskCounts(rows))
        /\ costDistanceChart # Null =>
              /\ Len(scatterData(rows)) > 0
              /\ costDistanceChart.data = scatterData(rows)
        /\ modeEmissionsChart # Null =>
              /\ Len(rows) > 0
              /\ modeEmissionsChart.labels = ObjKeys(modeEmissions(rows))

----------------------------------------------------------------------------
(* The walkthrough, its auto-advance timers and the popups:                 *)
(* app.js:1219-1338, 1341-1626, 1708-1763 (SpecTour)                        *)

\* longest history of the page: calls of start(), demo popups created,
\* calls of removeChild on one popup, calls of next() beyond the step count
MaxRuns == 2
MaxDemoPopups == 2
MaxRemoveCalls == 2
ExtraAdvances == 1

\* app.js:1345-1429: the steps with what their action does to the page
steps ==
    <<[title |-> "Welcome to Derya AI Freight", action |-> "highlightElement"],
      [title |-> "Data Loading", action |-> "simulateDataUpload"],
      [title |-> "Filter Panel", action |-> "populateFilters"],
      [title |-> "Interactive Filters", action |-> "simulateFilterInteraction"],
      [title |-> "Key Performance Indicators", action |-> "highlightElement"],
      [title |-> "AI Insights", action |-> "highlightElement"],
      [title |-> "Delay Analysis", action |-> "highlightElement"],
      [title |-> "Risk Distribution", action |-> "highlightElement"],
      [title |-> "Cost vs Distance Analysis", action |-> "highlightElement"],
      [title |-> "Emissions Tracking", action |-> "highlightElement"],
      [title |-> "Data Preview", action |-> "highlightElement"]>>

\* the walkthrough with the timers and popups its methods reach
Tour == [currentStep |-> currentStep, isActive |-> isActive, timers |-> timers, popups |-> popups]

\* app.js:1220-1261: the welcome popup is appended to the body and listens
\* for the Escape key
showWelcomeMessage(ps) ==
    Append(ps, [kind |-> "welcome", attached |-> TRUE, listening |-> TRUE, removeChildCalls |-> 0])

\* app.js:1286-1338: the demo popup is appended to the body and listens for
\* the Escape key
showDemoMessage(ps) ==
    Append(ps, [kind |-> "demo", attached |-> TRUE, listening |-> TRUE, removeChildCalls |-> 0])

\* document.body.removeChild(popup): the call is counted; on a popup that is
\* no longer a child of the body it throws and changes nothing else
removeChild(p) == [p EXCEPT !.removeChildCalls = @ + 1, !.attached = FALSE]

\* app.js:1263-1265, 1320-1322: closeWelcome and closePopup
closePopup(p) == removeChild(p)

\* app.js:1274-1280, 1332-1338: the keydown listener of a popup on Escape:
\* closePopup, then the listener removes itself unless removeChild threw
handleEscape(p) ==
    IF ~p.listening THEN p
    ELSE IF p.attached THEN [closePopup(p) EXCEPT !.listening = FALSE]
    ELSE closePopup(p)

\* app.js:1613-1626: the click on the upload button opens the demo popup
\* (app.js:1721-1727) and a timer is set
simulateDataUpload(w) ==
    [w EXCEPT !.popups = showDemoMessage(w.popups),
              !.timers = Append(w.timers, [run |-> run, step |-> w.currentStep])]

\* app.js:1463-1491: the step is shown and its action runs
updateStep(w) ==
    IF steps[w.currentStep + 1].action = "simulateDataUpload" THEN simulateDataUpload(w)
    ELSE w

\* app.js:1434-1439
start(w) == updateStep([w EXCEPT !.isActive = TRUE, !.currentStep = 0])

stopKeepsActive(w) == w

\* app.js:1441-1445
stop(w) == [w EXCEPT !.isActive = FALSE]

\* app.js:1447-1454
next(w) ==
    IF w.currentStep < Len(steps) - 1
    THEN updateStep([w EXCEPT !.currentStep = @ + 1])
    ELSE stop(w)

previousWraps(w) ==
    IF w.currentStep > 0
    THEN updateStep([w EXCEPT !.currentStep = @ - 1])
    ELSE [w EXCEPT !.currentStep = Len(steps) - 1]

\* app.js:1456-1461
previous(w) ==
    IF w.currentStep > 0
    THEN updateStep([w EXCEPT !.currentStep = @ - 1])
    ELSE w

\* app.js:1621-1625: the callback of an auto-advance timer
timerCallback(w) == IF w.isActive THEN next(w) ELSE w

DemoPopups(ps) == {i \in DOMAIN ps : ps[i].kind = "demo"}

\* the event has been handled and has left the walkthrough as w, within the
\* bounds of the history
Handled(name, w) ==
    /\ Cardinality(DemoPopups(w.popups)) <= MaxDemoPopups
    /\ \A i \in DOMAIN w.popups : w.popups[i].removeChildCalls <= MaxRemoveCalls
    /\ currentStep' = w.currentStep
    /\ isActive' = w.isActive
    /\ timers' = w.timers
    /\ popups' = w.popups
    /\ event' = name
    /\ UNCHANGED aggregateVars
    /\ UNCHANGED <<rows, ret, called, fileHint, loadState, chartVars>>

\* app.js:1730-1736, 1270-1273: a click on one of the tour buttons, or on
\* the start button of the welcome popup, which closes the popup first
OnStart ==
    /\ run < MaxRuns
    /\ \/ Handled("start", start(Tour))
       \/ \E i \in DOMAIN popups :
             /\ popups[i].kind = "welcome" /\ popups[i].attached
             /\ Handled("start", start([Tour EXCEPT !.popups[i] = closePopup(@)]))
    /\ run' = run + 1
    /\ advances' = 0
    /\ detour' = FALSE

\* app.js:1738-1740, 1753-1755: the next button, ArrowRight or Enter
OnNext ==
    /\ advances < Len(steps) + ExtraAdvances
    /\ Handled("next", next(Tour))
    /\ advances' = advances + 1
    /\ UNCHANGED <<run, detour>>

\* app.js:1742-1744, 1756-1758: the previous button or ArrowLeft
OnPrevious ==
    /\ Handled("previous", previous(Tour))
    /\ detour' = TRUE
    /\ UNCHANGED <<run, advances>>

\* app.js:1746-1748: the skip button
OnStop ==
    /\ Handled("stop", stop(Tour))
    /\ detour' = TRUE
    /\ UNCHANGED <<run, advances>>

\* app.js:1621-1625: the oldest pending timer fires
OnTimer ==
    /\ timers # <<>>
    /\ isActive => advances < Len(steps) + ExtraAdvances
    /\ Handled("timer", timerCallback([Tour EXCEPT !.timers = Tail(@)]))
    /\ advances' = IF isActive THEN advances + 1 ELSE advances
    /\ UNCHANGED <<run, detour>>

\* app.js:1714-1716: the welcome popup is shown once, after the page loaded
OnWelcomeTimer ==
    /\ \A i \in DOMAIN popups : popups[i].kind # "welcome"
    /\ Handled("welcome", [Tour EXCEPT !.popups = showWelcomeMessage(@)])
    /\ UNCHANGED <<run, advances, detour>>

\* app.js:1721-1727: a click on the upload button
OnUploadClick ==
    /\ Handled("upload", [Tour EXCEPT !.popups = showDemoMessage(@)])
    /\ UNCHANGED <<run, advances, detour>>

\* app.js:1270, 1326-1331: a click on the skip button of the welcome popup,
\* on the close button of a demo popup or on its backdrop
OnCloseClick ==
    /\ \E i \in DOMAIN popups :
          /\ popups[i].attached
          /\ Handled("close", [Tour EXCEPT !.popups[i] = closePopup(@)])
    /\ UNCHANGED <<run, advances, detour>>

\* app.js:1274-1280, 1332-1338, 1759-1762: the Escape key reaches the
\* listener of every popup that still listens, and stops an active tour
OnEscape ==
    /\ Handled("escape",
               LET w == [Tour EXCEPT !.popups = [i \in DOMAIN popups |-> handleEscape(popups[i])]]
               IN  IF isActive THEN stop(w) ELSE w)
    /\ detour' = (detour \/ isActive)
    /\ UNCHANGED <<run, advances>>

\* the events of the walkthrough
NextTour ==
    \/ OnStart
    \/ OnNext
    \/ OnPrevious
    \/ OnStop
    \/ OnTimer
    \/ OnWelcomeTimer

SpecTour == InitLoad /\ [][NextTour]_vars

\* the events of the walkthrough and of the popups
NextPopups ==
    \/ OnStart
    \/ OnNext
    \/ OnPrevious
    \/ OnStop
    \/ OnTimer
    \/ OnWelcomeTimer
    \/ OnUploadClick
    \/ OnCloseClick
    \/ OnEscape

SpecPopups == InitLoad /\ [][NextPopups]_vars

----------------------------------------------------------------------------
(* Claims on the walkthrough (SpecTour) *)

LastStep == Len(steps) - 1

\* C25: whatever start, next, previous, stop and timer callbacks have run,
\* currentStep is one of 0..steps.length-1; previous() at step 0 leaves
\* currentStep at 0, and next() at the last step, called by the user or by
\* a timer of an active tour, leaves currentStep unchanged and makes the
\* tour inactive.
C25_StepInRange ==
    [][/\ currentStep' \in 0..LastStep
       /\ (event' = "previous" /\ currentStep = 0) => currentStep' = 0
       /\ (event' = "next" /\ currentStep = LastStep) =>
             currentStep' = LastStep /\ ~isActive'
       /\ (event' = "timer" /\ isActive /\ currentStep = LastStep) =>
             currentStep' = LastStep /\ ~isActive']_vars

\* C25 witness: after start(), next() has run once per step and once more
\* at the last step, where it left the step alone and ended the tour.
C25_Witness ==
    /\ event = "next"
    /\ ~detour
    /\ advances = Len(steps)
    /\ currentStep = LastStep
    /\ ~isActive

\* the oldest pending timer was set on the step the tour is on now, in the
\* run that is still active
TimerInItsStep ==
    /\ isActive
    /\ currentStep = Head(timers).step
    /\ run = Head(timers).run

\* C26: an auto-advance timer set by simulateDataUpload advances the tour
\* only if the tour is still active on the Data Loading step of the run
\* that set it: fired after the user has moved to another step, or after
\* the tour was stopped and started again, it leaves currentStep unchanged.
C26_TimerOnlyInItsStep ==
    [][(event' = "timer" /\ timers # <<>> /\ ~TimerInItsStep) =>
          currentStep' = currentStep]_vars

\* C27: after start(), as long as only next() calls and timer callbacks
\* follow, currentStep never decreases and the tour is inactive once next()
\* has run steps.length times; after stop() the tour is inactive whatever
\* the step.
C27_TourEnds ==
    [][/\ (run' = run /\ ~detour') => currentStep' >= currentStep
       /\ (run' > 0 /\ ~detour' /\ advances' >= Len(steps)) => ~isActive'
       /\ event' = "stop" => ~isActive']_vars

\* C27 witness: a started tour without previous() or stop() has ended with
\* its steps.length-th advance, made by a timer callback at the last step.
C27_Witness ==
    /\ run > 0
    /\ ~detour
    /\ event = "timer"
    /\ advances = Len(steps)
    /\ currentStep = LastStep
    /\ ~isActive

----------------------------------------------------------------------------
(* Claim on the popups (SpecPopups) *)

\* C28: a welcome or demo popup is removed from the document at most once:
\* whatever button clicks, backdrop clicks and Escape key presses follow its
\* creation, removeChild is called on it at most one time.
C28_RemovedAtMostOnce ==
    \A i \in DOMAIN popups : popups[i].removeChildCalls <= 1

----------------------------------------------------------------------------
(* The chart builders called in any order on one row array after another,  *)
(* in a document that may lack one of the chart containers (SpecCharts)    *)

\* the row arrays handed to the builders: none, one row, which ranks no
\* carrier, and MinShipments equal rows, with and without a valid point
ChartSheets ==
    {<<>>} \cup {<<row>> : row \in {r \in ReloadRowPool : "cost_usd" \in DOMAIN r}}
           \cup {[i \in 1..MinShipments |-> row] : row \in ReloadRowPool}

\* the containers of a document: all four, or all but one
DocumentContainers ==
    {ChartContainers} \cup {ChartContainers \ {kind} : kind \in ChartContainers}

\* the next row array is handed to the builders
NewRows ==
    /\ rows' \in ChartSheets
    /\ rows' # rows
    /\ called' = {}
    /\ UNCHANGED aggregateVars
    /\ UNCHANGED <<ret, pageVars>>

InitChartBuilders ==
    /\ urlCpd = Null
    /\ COST_PER_DELAY_DAY = CostPerDelayDayOf(urlCpd)
    /\ rows \in ChartSheets
    /\ kpi = KpiUnset
    /\ delayByCarrierChart = Null
    /\ riskDistributionChart = Null
    /\ ret = NoRet
    /\ called = {}
    /\ costDistanceChart = Null
    /\ modeEmissionsChart = Null
    /\ insightsContainer = <<>>
    /\ fileHint = "success"
    /\ loadState = "decoded"
    /\ InitTour
    /\ containers \in DocumentContainers
    /\ NoCharts

NextChartBuilders ==
    \/ NewRows
    \/ createDelayByCarrierChart
    \/ createRiskDistributionChart
    \/ createCostDistanceChart
    \/ createModeEmissionsChart

SpecCharts == InitChartBuilders /\ [][NextChartBuilders]_vars

\* the handle of the chart drawn in a container
HandleOf(kind) ==
    CASE kind = "chart-delay-by-carrier" -> delayByCarrierChart
      [] kind = "chart-risk" -> riskDistributionChart
      [] kind = "chart-cost-distance" -> costDistanceChart
      [] kind = "chart-mode-emissions" -> modeEmissionsChart

\* C29: whatever chart builders have been called, each of the four handles
\* refers to at most one live chart: a container has at most one chart that
\* was created and not destroyed, and it has one exactly when the handle is
\* set, so a chart is created only after the chart before it was destroyed;
\* and a call that destroyed a chart has created a new one.
C29_OneLiveChart ==
    /\ \A kind \in ChartContainers :
          /\ liveCharts[kind] <= 1
          /\ liveCharts[kind] = 1 <=> HandleOf(kind) # Null
    /\ chartCall.destroyed => chartCall.created /\ HandleOf(chartCall.kind) # Null

\* C29 witness: the last builder call destroyed the chart of its handle and
\* created the one the handle holds now, the only live chart of its kind.
C29_Witness ==
    /\ chartCall.destroyed
    /\ chartCall.created
    /\ liveCharts[chartCall.kind] = 1
    /\ HandleOf(chartCall.kind) # Null

----------------------------------------------------------------------------
(* The savings amount of the KPI and of the insight sentence (SpecSavings) *)

\* longest row array of the savings amounts
MaxSavingsRows == 2

SavingsRowPool ==
    {[DelayDays |-> Int_(0)],
     [DelayDays |-> Int_(2)],
     [delay |-> Int_(1), carrier_name |-> Str(<<"A">>)],
     [actual_delay_days |-> Int_(3)]}

InitSavings ==
    /\ urlCpd \in CpdParams
    /\ COST_PER_DELAY_DAY = CostPerDelayDayOf(urlCpd)
    /\ rows \in SeqsUpTo(SavingsRowPool, MaxSavingsRows)
    /\ kpi = KpiUnset
    /\ delayByCarrierChart = Null
    /\ riskDistributionChart = Null
    /\ ret = NoRet
    /\ called = {}
    /\ costDistanceChart = Null
    /\ modeEmissionsChart = Null
    /\ insightsContainer = <<>>
    /\ InitPage

NextSavings == updateKPIs \/ renderInsights

SpecSavings == InitSavings /\ [][NextSavings]_vars

\* the savings potential of the rows, in units of 1/Scale
SavingsOfRows == computeSavingsPotential(rows, COST_PER_DELAY_DAY)

\* the amount that the savings sentence shows
InsightAmount == (CHOOSE c \in InsightsOfKind("savings") : TRUE).amount

\* C30: for a non-empty row array the savings KPI shows the rounded savings
\* potential when that is above 0 and the placeholder DemoSavings when it is
\* 0; so, once renderInsights has run too, the KPI equals the amount of the
\* savings sentence exactly when the savings potential is above 0.
C30_SavingsShown ==
    ("updateKPIs" \in called /\ Len(rows) > 0) =>
        /\ SavingsOfRows > 0 => kpi.displaySavings = MathRound(SavingsOfRows)
        /\ SavingsOfRows = 0 => kpi.displaySavings = DemoSavings
        /\ InsightsRendered =>
              (kpi.displaySavings = InsightAmount <=> SavingsOfRows > 0)

\* C30 witness: the rows have a savings potential of 0, the KPI shows the
\* placeholder and the savings sentence shows 0.
C30_Witness ==
    /\ "updateKPIs" \in called
    /\ InsightsRendered
    /\ SavingsOfRows = 0
    /\ kpi.displaySavings = DemoSavings
    /\ InsightAmount = 0

====
